---- MODULE Spec2Model ----
(***************************************************************************)
(* The volume spec ledger of the control plane: the VolumeSpec record and  *)
(* its SpecTransaction implementation (common/src/types/v0/store/          *)
(* volume.rs), the Reconciler that drives a record through its transaction *)
(* under the per-resource Operation Sequencer, the CSI controller and its  *)
(* REST client (control-plane/csi-controller), and the loopback device of  *)
(* the io-engine (io-engine/src/bdev/loopback.rs).                         *)
(*                                                                         *)
(* Option<T> is modelled as a sequence: None is << >>, Some(x) is <<x>>.   *)
(***************************************************************************)
EXTENDS Integers, Sequences, FiniteSets, TLC

VARIABLES
    trace,      \* SpecTxn: the records of one VolumeSpec, the initial one first
    calls,      \* SpecTxn: the SpecTransaction calls made on it, in order
    mem,        \* Spec: the in-memory Spec Record of each volume id, if any
    store,      \* Spec: the persisted record of each volume id, if any
    dp,         \* Spec: the data-plane's runtime state of each volume
    task,       \* Spec: each Reconciler task's position, request and outcome
    rpc,        \* Spec: the recovery's position on each volume id
    loaded,     \* Spec: the pending record recovery reloaded for each id
    resolved,   \* Spec: the record recovery left for each id, once resolved
    probe,      \* Spec: what recovery's query of the data-plane found
    rexec,      \* Spec: executor invocations made by recovery for each id
    applied,    \* Spec: times the executor applied the recorded operation
    submits,    \* Spec: requests submitted so far
    crashes,    \* Spec: restarts so far
    ledger,     \* SpecCsi: the volume records behind the REST gateway
    csi,        \* SpecCsi: the CSI call in progress and its REST exchange
    log,        \* SpecCsi: the CSI calls that have returned, in order
    gone,       \* SpecLive: the tasks whose caller timed out or cancelled
    volumes,    \* SpecVol: the volumes the REST gateway reports, by uuid
    ctl,        \* SpecVol: each CSI request in progress and its REST calls
    replies,    \* SpecVol: the CSI requests that have returned, in order
    REST_CLIENT, \* SpecClient: the process-wide OnceCell of the API client
    boot,       \* SpecClient: each thread's call of initialize
    seen,       \* SpecClient: the base URLs read through get_client
    bdevs,      \* SpecLoopback: the bdevs of the io-engine, by name
    children,   \* SpecLoopback: the nexus children plugged in, by name
    lbcalls,    \* SpecLoopback: the create/destroy calls made, in order
    capcall,    \* SpecCapacity: the GetCapacity request in progress
    capacity,   \* SpecCapacity: the pools listed and the response, if any
    iovs,       \* SpecNull: the queue of each channel of the NullNg device
    bios,       \* SpecNull: each request, as submitted and as completed
    polled      \* SpecNull: what the last run of each channel's poller returned

txnVars == <<trace, calls>>
recVars == <<mem, store, dp, task, rpc, loaded, resolved, probe, rexec,
             applied, submits, crashes>>
csiVars == <<ledger, csi, log>>
liveVars == <<gone>>
volVars == <<volumes, ctl, replies>>
clientVars == <<REST_CLIENT, boot, seen>>
loopVars == <<bdevs, children, lbcalls>>
capVars == <<capcall, capacity>>
nullVars == <<iovs, bios, polled>>
extVars == <<volVars, clientVars, loopVars, capVars, nullVars>>
notVol == <<txnVars, recVars, csiVars, liveVars, clientVars, loopVars,
            capVars, nullVars>>
notClient == <<txnVars, recVars, csiVars, liveVars, volVars, loopVars,
               capVars, nullVars>>
notLoop == <<txnVars, recVars, csiVars, liveVars, volVars, clientVars,
             capVars, nullVars>>
notCap == <<txnVars, recVars, csiVars, liveVars, volVars, clientVars,
            loopVars, nullVars>>
notNull == <<txnVars, recVars, csiVars, liveVars, volVars, clientVars,
             loopVars, capVars>>
vars == <<trace, calls, mem, store, dp, task, rpc, loaded, resolved, probe,
          rexec, applied, submits, crashes, ledger, csi, log, gone,
          volumes, ctl, replies, REST_CLIENT, boot, seen, bdevs, children,
          lbcalls, capcall, capacity, iovs, bios, polled>>

\* ------------------------------------------------------------------ bounds

\* the number of SpecTransaction calls made on the record of SpecTxn
MaxCalls == 4
\* the number of requests submitted to the Reconciler
MaxSubmits == 2
\* the number of process restarts
MaxCrashes == 1
\* the number of CSI calls made
MaxCsiCalls == 2
\* the number of create and destroy calls made on loopback devices
MaxLoopCalls == 3
\* the number of pools in a listing
MaxPools == 3
\* the number of requests submitted to the NullNg device
MaxIos == 3

\* ------------------------------------------------------------------ values

None == << >>
Some(x) == <<x>>
IsSome(o) == o # << >>
Unwrap(o) == o[1]

VolumeIds == {"V1", "V2"}
NodeIds == {"n1"}
NexusIds == {"x1", "x2"}
ReplicaIds == {"r1"}
VolumeShareProtocols == {"Nvmf", "Iscsi"}
Sizes == {1024, 2048}
ReplicaCounts == {1, 2}

\* Protocol::from(VolumeShareProtocol): each share protocol has the variant
\* of Protocol of the same name
ProtocolFrom(share) ==
    CASE share = "Nvmf" -> "Nvmf"
      [] share = "Iscsi" -> "Iscsi"

StatusCreating == <<"Creating">>
StatusCreatedOnline == <<"Created", "Online">>
StatusDeleting == <<"Deleting">>
StatusDeleted == <<"Deleted">>

\* the state of a fresh OperationSequence: nobody holds the guard
Unlocked == "unlocked"

\* VolumeOperation: one record shape for every variant, unused payload
\* fields hold their default
Op(kind) ==
    [kind |-> kind, share |-> None, count |-> 0, node |-> "", nexus |-> "",
     replica |-> ""]
OpCreate == Op("Create")
OpDestroy == Op("Destroy")
OpShare(p) == [Op("Share") EXCEPT !.share = Some(p)]
OpUnshare == Op("Unshare")
OpSetReplica(n) == [Op("SetReplica") EXCEPT !.count = n]
OpPublish(node, nexus, share) ==
    [Op("Publish") EXCEPT !.node = node, !.nexus = nexus, !.share = share]
OpUnpublish == Op("Unpublish")
OpRemoveUnusedReplica(r) == [Op("RemoveUnusedReplica") EXCEPT !.replica = r]

VolumeOperation ==
    {OpCreate, OpDestroy, OpUnshare, OpUnpublish}
    \cup {OpShare(p) : p \in VolumeShareProtocols}
    \cup {OpSetReplica(n) : n \in ReplicaCounts}
    \cup {OpPublish(n, x, s) : n \in NodeIds, x \in NexusIds,
                               s \in {None, Some("Nvmf")}}
    \cup {OpRemoveUnusedReplica(r) : r \in ReplicaIds}

VolumeTarget(node, nexus) == [node |-> node, nexus |-> nexus]

\* a CreateVolume request
CreateVolume(uuid, size, replicas) ==
    [uuid |-> uuid, size |-> size, replicas |-> replicas,
     policy |-> "default", topology |-> "default"]

\* mutant: the record is built with status Created(Online)
VolumeSpecFrom_created(request) ==
    [uuid |-> request.uuid,
     size |-> request.size,
     labels |-> << >>,
     num_replicas |-> request.replicas,
     protocol |-> "None",
     status |-> StatusCreatedOnline,
     target |-> None,
     policy |-> request.policy,
     topology |-> request.topology,
     sequencer |-> Unlocked,
     last_nexus_id |-> None,
     operation |-> None]

\* impl From<&CreateVolume> for VolumeSpec
VolumeSpecFrom(request) ==
    [uuid |-> request.uuid,
     size |-> request.size,
     labels |-> << >>,
     num_replicas |-> request.replicas,
     protocol |-> "None",
     status |-> StatusCreating,
     target |-> None,
     policy |-> request.policy,
     topology |-> request.topology,
     sequencer |-> Unlocked,
     last_nexus_id |-> None,
     operation |-> None]

\* ----------------------------------------------------------------- store keys
\* ObjectKey: the kind of the stored object and its id in string form,
\* which is how the ids are held here.

\* impl ObjectKey for VolumeSpecKey
VolumeSpecKey(id) == [key_type |-> "VolumeSpec", key_uuid |-> id]

\* mutant: the key of a VolumeState has the kind of a VolumeSpec
VolumeStateKey_as_spec(id) == [key_type |-> "VolumeSpec", key_uuid |-> id]

\* impl ObjectKey for VolumeStateKey
VolumeStateKey(id) == [key_type |-> "VolumeState", key_uuid |-> id]

\* impl StorableObject for VolumeSpec: key()
VolumeSpec_key(self) == VolumeSpecKey(self.uuid)

\* impl StorableObject for VolumeState: key()
VolumeState_key(self) == VolumeStateKey(self.uuid)

\* the VolumeState of a volume: of its fields, the uuid and what the model
\* holds of the volume
VolumeState(uuid, size, num_replicas) ==
    [uuid |-> uuid, size |-> size, num_replicas |-> num_replicas]

\* ------------------------------------------- SpecTransaction for VolumeSpec

pending_op(self) == IsSome(self.operation)

\* mutant: a committed Destroy leaves the status as it was
commit_fold_keeps_status(self, op) ==
    CASE op.kind = "Destroy" -> self
      [] op.kind = "Create" -> [self EXCEPT !.status = StatusCreatedOnline]
      [] op.kind = "Share" ->
            [self EXCEPT !.protocol = ProtocolFrom(Unwrap(op.share))]
      [] op.kind = "Unshare" -> [self EXCEPT !.protocol = "None"]
      [] op.kind = "SetReplica" -> [self EXCEPT !.num_replicas = op.count]
      [] op.kind = "RemoveUnusedReplica" -> self
      [] op.kind = "Publish" ->
            [self EXCEPT
                !.target = Some(VolumeTarget(op.node, op.nexus)),
                !.last_nexus_id = Some(op.nexus),
                !.protocol = IF IsSome(op.share)
                             THEN ProtocolFrom(Unwrap(op.share))
                             ELSE "None"]
      [] op.kind = "Unpublish" ->
            [self EXCEPT !.target = None, !.protocol = "None"]

\* mutant: Unpublish leaves the protocol as it is
commit_fold_unpublish_keeps_protocol(self, op) ==
    CASE op.kind = "Destroy" -> [self EXCEPT !.status = StatusDeleted]
      [] op.kind = "Create" -> [self EXCEPT !.status = StatusCreatedOnline]
      [] op.kind = "Share" ->
            [self EXCEPT !.protocol = ProtocolFrom(Unwrap(op.share))]
      [] op.kind = "Unshare" -> [self EXCEPT !.protocol = "None"]
      [] op.kind = "SetReplica" -> [self EXCEPT !.num_replicas = op.count]
      [] op.kind = "RemoveUnusedReplica" -> self
      [] op.kind = "Publish" ->
            [self EXCEPT
                !.target = Some(VolumeTarget(op.node, op.nexus)),
                !.last_nexus_id = Some(op.nexus),
                !.protocol = IF IsSome(op.share)
                             THEN ProtocolFrom(Unwrap(op.share))
                             ELSE "None"]
      [] op.kind = "Unpublish" -> [self EXCEPT !.target = None]

\* the match of commit_op: the effect of the recorded operation op
commit_fold(self, op) ==
    CASE op.kind = "Destroy" -> [self EXCEPT !.status = StatusDeleted]
      [] op.kind = "Create" -> [self EXCEPT !.status = StatusCreatedOnline]
      [] op.kind = "Share" ->
            [self EXCEPT !.protocol = ProtocolFrom(Unwrap(op.share))]
      [] op.kind = "Unshare" -> [self EXCEPT !.protocol = "None"]
      [] op.kind = "SetReplica" -> [self EXCEPT !.num_replicas = op.count]
      [] op.kind = "RemoveUnusedReplica" -> self
      [] op.kind = "Publish" ->
            [self EXCEPT
                !.target = Some(VolumeTarget(op.node, op.nexus)),
                !.last_nexus_id = Some(op.nexus),
                !.protocol = IF IsSome(op.share)
                             THEN ProtocolFrom(Unwrap(op.share))
                             ELSE "None"]
      [] op.kind = "Unpublish" ->
            [self EXCEPT !.target = None, !.protocol = "None"]

\* mutant: the pending operation is left in place
clear_op_keeps(self) == self

\* mutant: the effect of the pending operation is applied before it goes
clear_op_folds(self) ==
    [(IF IsSome(self.operation)
      THEN commit_fold(self, Unwrap(self.operation).operation)
      ELSE self) EXCEPT !.operation = None]

clear_op(self) == [self EXCEPT !.operation = None]

\* mutant: the operation is not recorded in the record
start_op_unrecorded(self, operation) == self

\* mutant: the effect of SetReplica is written when the operation starts
start_op_eager(self, operation) ==
    [self EXCEPT
        !.operation = Some([operation |-> operation, result |-> None]),
        !.num_replicas = IF operation.kind = "SetReplica"
                         THEN operation.count ELSE @]

start_op(self, operation) ==
    [self EXCEPT !.operation = Some([operation |-> operation, result |-> None])]

\* mutant: a result set on a record without pending operation is recorded
\* as the result of a Create
set_op_result_always(self, result) ==
    IF IsSome(self.operation)
    THEN [self EXCEPT !.operation =
              Some([Unwrap(self.operation) EXCEPT !.result = Some(result)])]
    ELSE [self EXCEPT !.operation =
              Some([operation |-> OpCreate, result |-> Some(result)])]

set_op_result(self, result) ==
    IF IsSome(self.operation)
    THEN [self EXCEPT !.operation =
              Some([Unwrap(self.operation) EXCEPT !.result = Some(result)])]
    ELSE self

\* mutant: the fold is made but the operation stays recorded
commit_op_unfinished(self) ==
    IF IsSome(self.operation)
    THEN commit_fold(self, Unwrap(self.operation).operation)
    ELSE self

\* mutant: Publish does not record the nexus it used
commit_op_no_last_nexus(self) ==
    clear_op(IF IsSome(self.operation)
             THEN LET op == Unwrap(self.operation).operation
                  IN  IF op.kind = "Publish"
                      THEN [commit_fold(self, op) EXCEPT
                                !.last_nexus_id = self.last_nexus_id]
                      ELSE commit_fold(self, op)
             ELSE self)

\* mutant: the fold is applied only to an operation recorded as failed
commit_op_on_failure(self) ==
    clear_op(IF IsSome(self.operation)
                /\ Unwrap(self.operation).result = Some(FALSE)
             THEN commit_fold(self, Unwrap(self.operation).operation)
             ELSE self)

commit_op(self) ==
    clear_op(IF IsSome(self.operation)
             THEN commit_fold(self, Unwrap(self.operation).operation)
             ELSE self)

\* mutant: the pending operation is not looked at
desired_num_replicas_current(self) == self.num_replicas

\* VolumeSpec::desired_num_replicas
desired_num_replicas(self) ==
    IF IsSome(self.operation)
       /\ Unwrap(self.operation).operation.kind = "SetReplica"
    THEN Unwrap(self.operation).operation.count
    ELSE self.num_replicas

\* ------------------------------------------------------------------ SpecTxn
\* One VolumeSpec, built from a creation request, and every sequence of at
\* most MaxCalls calls of its SpecTransaction methods.

NoOp == Op("")
Call(fn, op, res) == [fn |-> fn, op |-> op, res |-> res]

vol == trace[Len(trace)]

TxnInit ==
    /\ \E n \in ReplicaCounts :
          trace = <<VolumeSpecFrom(CreateVolume("V1", 1024, n))>>
    /\ calls = << >>

\* the record of SpecTxn while another specification runs
TxnIdle ==
    /\ trace = <<VolumeSpecFrom(CreateVolume("V1", 1024, 1))>>
    /\ calls = << >>

TxnStep(call, after) ==
    /\ Len(calls) < MaxCalls
    /\ calls' = Append(calls, call)
    /\ trace' = Append(trace, after)
    /\ UNCHANGED <<recVars, csiVars, liveVars, extVars>>

StartOp == \E op \in VolumeOperation :
    TxnStep(Call("start_op", op, FALSE), start_op(vol, op))

SetOpResult == \E r \in BOOLEAN :
    TxnStep(Call("set_op_result", NoOp, r), set_op_result(vol, r))

CommitOp == TxnStep(Call("commit_op", NoOp, FALSE), commit_op(vol))

ClearOp == TxnStep(Call("clear_op", NoOp, FALSE), clear_op(vol))

NextTxn == StartOp \/ SetOpResult \/ CommitOp \/ ClearOp

\* ------------------------------------------------- store, sequencer, executor

\* #[serde(skip)] sequencer: the persisted form of a record has every field
\* but the sequencer
Serialize(self) == [f \in (DOMAIN self) \ {"sequencer"} |-> self[f]]

\* mutant: the pending operation is loaded without its result
Deserialize_forgets_result(stored) ==
    [f \in (DOMAIN stored) \cup {"sequencer"} |->
        IF f = "sequencer" THEN Unlocked
        ELSE IF f = "operation" /\ stored[f] # None
        THEN Some([Unwrap(stored[f]) EXCEPT !.result = None])
        ELSE stored[f]]

\* loading a record gives it a fresh OperationSequence (Default)
Deserialize(stored) ==
    [f \in (DOMAIN stored) \cup {"sequencer"} |->
        IF f = "sequencer" THEN Unlocked ELSE stored[f]]

\* Operation Sequencer: acquire() gives who the guard, or fails with Busy
\* mutant: the guard is given whoever holds it
CanAcquire_always(self) == TRUE

\* mutant: the guard stays with its holder
Release_never(self) == self

\* mutant: one lock for all records
CanAcquire_global(self) ==
    \A v \in VolumeIds : mem[v] = None \/ Unwrap(mem[v]).sequencer = Unlocked

CanAcquire(self) == self.sequencer = Unlocked
Acquire(self, who) == [self EXCEPT !.sequencer = who]
Release(self) == [self EXCEPT !.sequencer = Unlocked]

\* mutant: the size is not compared
VolumeSpecEqCreateVolume_any_size(self, other) ==
    [VolumeSpecFrom(other) EXCEPT !.status = self.status,
                                  !.sequencer = self.sequencer,
                                  !.size = self.size] = self

\* impl PartialEq<CreateVolume> for VolumeSpec
VolumeSpecEqCreateVolume(self, other) ==
    [VolumeSpecFrom(other) EXCEPT !.status = self.status,
                                  !.sequencer = self.sequencer] = self

\* the data-plane's runtime state of a volume
NoVolume == [exists |-> FALSE, replicas |-> 0, target |-> None]

\* Executor: the effect of apply(operation) on the runtime state
Apply(op, spec, rt) ==
    CASE op.kind = "Create" ->
            [exists |-> TRUE, replicas |-> spec.num_replicas, target |-> None]
      [] op.kind = "Destroy" -> NoVolume
      [] op.kind = "SetReplica" -> [rt EXCEPT !.replicas = op.count]
      [] op.kind = "Publish" -> [rt EXCEPT !.target = Some(op.nexus)]
      [] op.kind = "Unpublish" -> [rt EXCEPT !.target = None]
      [] OTHER -> rt

\* what the Reconciler's query of the runtime state decides: the effect of
\* the recorded operation is there already
\* mutant: the runtime state is not looked at
EffectPresent_never(op, spec, rt) == FALSE

EffectPresent(op, spec, rt) == Apply(op, spec, rt) = rt

\* ---------------------------------------------------------------- Reconciler
\* One task per request (section 4.4): acquire the guard, load or construct
\* the record, start_op and persist, invoke the executor, set_op_result and
\* persist, commit_op or clear_op and persist, release the guard.

Tasks == {"T1", "T2"}
Recovery == "recovery"

\* the operations the Reconciler is asked for
Requests ==
    {OpCreate, OpDestroy, OpSetReplica(2),
     OpPublish("n1", "x1", Some("Nvmf"))}

\* the request field of a task whose operation is not a Create
NoRequest == CreateVolume("", 0, 0)

Idle ==
    [pc |-> "idle", id |-> "", op |-> NoOp, request |-> NoRequest,
     ok |-> FALSE, ret |-> ""]

\* mutant: every operation is admitted whatever the status
ValidFor_any(self, op) == TRUE

\* InvalidOperation: which operations a record's status admits
ValidFor(self, op) ==
    CASE self.status = StatusCreatedOnline -> op.kind # "Create"
      [] self.status = StatusCreating -> op.kind = "Destroy"
      [] self.status = StatusDeleted -> op.kind = "Destroy"
      [] OTHER -> FALSE

\* a volume as a committed Create of one replica leaves it
Created(id) ==
    [VolumeSpecFrom(CreateVolume(id, 1024, 1)) EXCEPT
        !.status = StatusCreatedOnline]

\* V1 has been created; V2 is yet to be requested
RecInit ==
    /\ mem = [v \in VolumeIds |-> IF v = "V1" THEN Some(Created(v)) ELSE None]
    /\ store = [v \in VolumeIds |->
                  IF v = "V1" THEN Some(Serialize(Created(v))) ELSE None]
    /\ dp = [v \in VolumeIds |->
               IF v = "V1" THEN Apply(OpCreate, Created(v), NoVolume)
               ELSE NoVolume]
    /\ task = [t \in Tasks |-> Idle]
    /\ rpc = [v \in VolumeIds |-> "none"]
    /\ loaded = [v \in VolumeIds |-> None]
    /\ resolved = [v \in VolumeIds |-> None]
    /\ probe = [v \in VolumeIds |-> None]
    /\ rexec = [v \in VolumeIds |-> 0]
    /\ applied = [v \in VolumeIds |-> 0]
    /\ submits = 0
    /\ crashes = 0

Returned(t, id, op, ret) ==
    [task[t] EXCEPT !.pc = "done", !.id = id, !.op = op, !.ok = FALSE,
                    !.ret = ret]

\* steps 1 to 3, up to the persist: the outcome of a request for op on id,
\* a Create with its CreateVolume request, as <<the record of id
\* afterwards, the task afterwards>>
SubmitOutcome(t, id, op, request) ==
    LET started(r) ==
            <<Some(start_op(Acquire(r, t), op)),
              [pc |-> "persist_start", id |-> id, op |-> op,
               request |-> request, ok |-> FALSE, ret |-> ""]>>
        reject(ret) ==
            <<mem[id],
              [Returned(t, id, op, ret) EXCEPT !.request = request]>>
    IN  IF mem[id] = None
        THEN CASE op.kind = "Create" -> started(VolumeSpecFrom(request))
               [] op.kind \in {"Destroy", "Unpublish"} -> reject("Ok")
               [] OTHER -> reject("NotFound")
        ELSE LET r == Unwrap(mem[id])
             IN  CASE ~CanAcquire(r) -> reject("Busy")
                   [] op.kind = "Create" ->
                        IF VolumeSpecEqCreateVolume(r, request)
                        THEN reject("Ok") ELSE reject("AlreadyExists")
                   [] ~ValidFor(r, op) -> reject("InvalidOperation")
                   [] OTHER -> started(r)

\* the CreateVolume requests made for id: the one V1 was created with,
\* one with another replica count, one with another size
CreateRequests(id) ==
    {CreateVolume(id, 1024, 1), CreateVolume(id, 1024, 2),
     CreateVolume(id, 2048, 1)}

Submit(t) ==
    \E id \in VolumeIds, op \in Requests :
    \E request \in CreateRequests(id) \cup {NoRequest} :
    /\ task[t].pc \in {"idle", "done"}
    /\ submits < MaxSubmits
    /\ (op.kind = "Create") = (request # NoRequest)
    /\ LET out == SubmitOutcome(t, id, op, request)
       IN  /\ mem' = [mem EXCEPT ![id] = out[1]]
           /\ task' = [task EXCEPT ![t] = out[2]]
           /\ applied' = [applied EXCEPT ![id] =
                              IF out[2].pc = "persist_start" THEN 0 ELSE @]
    /\ submits' = submits + 1
    /\ UNCHANGED <<store, dp, rpc, loaded, resolved, probe, rexec, crashes>>

\* the persist of step 3 succeeds
PersistStart(t) ==
    /\ task[t].pc = "persist_start"
    /\ store' = [store EXCEPT ![task[t].id] =
                     Some(Serialize(Unwrap(mem[task[t].id])))]
    /\ task' = [task EXCEPT ![t].pc = "execute"]
    /\ UNCHANGED <<mem, dp, rpc, loaded, resolved, probe, rexec, applied,
                   submits, crashes>>

\* the persist of step 3 fails: the operation is not started
PersistStartFails(t) ==
    /\ task[t].pc = "persist_start"
    /\ mem' = [mem EXCEPT ![task[t].id] =
                   IF store[task[t].id] = None THEN None
                   ELSE Some(Release(clear_op(Unwrap(mem[task[t].id]))))]
    /\ task' = [task EXCEPT ![t] =
                    Returned(t, task[t].id, task[t].op, "StoreFailure")]
    /\ UNCHANGED <<store, dp, rpc, loaded, resolved, probe, rexec, applied,
                   submits, crashes>>

\* step 4: the executor applies the operation, or fails without effect
Execute(t) == \E ok \in BOOLEAN :
    LET id == task[t].id
    IN  /\ task[t].pc = "execute"
        /\ dp' = [dp EXCEPT ![id] =
                      IF ok THEN Apply(task[t].op, Unwrap(mem[id]), @) ELSE @]
        /\ applied' = [applied EXCEPT ![id] = IF ok THEN @ + 1 ELSE @]
        /\ task' = [task EXCEPT ![t].pc = "set_result", ![t].ok = ok]
        /\ UNCHANGED <<mem, store, rpc, loaded, resolved, probe, rexec,
                       submits, crashes>>

\* step 5: set_op_result, persist
SetResult(t) ==
    LET id == task[t].id
        r == set_op_result(Unwrap(mem[id]), task[t].ok)
    IN  /\ task[t].pc = "set_result"
        /\ mem' = [mem EXCEPT ![id] = Some(r)]
        /\ store' = [store EXCEPT ![id] = Some(Serialize(r))]
        /\ task' = [task EXCEPT ![t].pc = "finish"]
        /\ UNCHANGED <<dp, rpc, loaded, resolved, probe, rexec, applied,
                       submits, crashes>>

\* step 6: commit_op on success, clear_op on failure
Resolve(self, ok) == IF ok THEN commit_op(self) ELSE clear_op(self)

\* steps 6 and 7: resolve, persist, release the guard; a record that
\* became Deleted is removed from the store before the guard goes
Finish(t) ==
    LET id == task[t].id
        r == Resolve(Unwrap(mem[id]), task[t].ok)
    IN  /\ task[t].pc = "finish"
        /\ store' = [store EXCEPT ![id] = Some(Serialize(r))]
        /\ IF r.status = StatusDeleted
           THEN /\ mem' = [mem EXCEPT ![id] = Some(r)]
                /\ task' = [task EXCEPT ![t].pc = "remove"]
           ELSE /\ mem' = [mem EXCEPT ![id] = Some(Release(r))]
                /\ task' = [task EXCEPT ![t] =
                       Returned(t, id, task[t].op,
                                IF task[t].ok THEN "Ok" ELSE "ExecutorFailure")]
        /\ UNCHANGED <<dp, rpc, loaded, resolved, probe, rexec, applied,
                       submits, crashes>>

\* the physical removal of a Deleted record
Remove(t) ==
    LET id == task[t].id
    IN  /\ task[t].pc = "remove"
        /\ store' = [store EXCEPT ![id] = None]
        /\ mem' = [mem EXCEPT ![id] = None]
        /\ task' = [task EXCEPT ![t] = Returned(t, id, task[t].op, "Ok")]
        /\ UNCHANGED <<dp, rpc, loaded, resolved, probe, rexec, applied,
                       submits, crashes>>


\* ------------------------------------------------------------ crash recovery
\* The process stops and starts again: every task is gone, the records are
\* loaded from the store with fresh sequencers, and the Reconciler takes the
\* guard of every record left with a pending operation to resolve it.

RecoveryOf(stored) ==
    IF stored = None \/ ~pending_op(Unwrap(stored)) THEN "none"
    ELSE IF IsSome(Unwrap(Unwrap(stored).operation).result) THEN "resume"
    ELSE "query"

Restart ==
    /\ crashes < MaxCrashes
    /\ crashes' = crashes + 1
    /\ task' = [t \in Tasks |-> Idle]
    /\ rpc' = [v \in VolumeIds |-> RecoveryOf(store[v])]
    /\ mem' = [v \in VolumeIds |->
                 IF store[v] = None THEN None
                 ELSE IF rpc'[v] = "none" THEN Some(Deserialize(Unwrap(store[v])))
                 ELSE Some(Acquire(Deserialize(Unwrap(store[v])), Recovery))]
    /\ loaded' = [v \in VolumeIds |->
                    IF rpc'[v] = "none" THEN None ELSE mem'[v]]
    /\ resolved' = [v \in VolumeIds |-> None]
    /\ probe' = [v \in VolumeIds |-> None]
    /\ rexec' = [v \in VolumeIds |-> 0]
    /\ UNCHANGED <<store, dp, applied, submits>>

\* result None: the runtime state is queried first; an effect that is there
\* is recorded as a success without a call of the executor
RecoverQuery(id) ==
    LET r == Unwrap(mem[id])
        op == Unwrap(r.operation).operation
        present == EffectPresent(op, r, dp[id])
    IN  /\ rpc[id] = "query"
        /\ probe' = [probe EXCEPT ![id] = Some(present)]
        /\ IF present
           THEN /\ mem' = [mem EXCEPT ![id] = Some(set_op_result(r, TRUE))]
                /\ store' = [store EXCEPT ![id] =
                                 Some(Serialize(set_op_result(r, TRUE)))]
                /\ rpc' = [rpc EXCEPT ![id] = "resume"]
           ELSE /\ rpc' = [rpc EXCEPT ![id] = "redrive"]
                /\ UNCHANGED <<mem, store>>
        /\ UNCHANGED <<dp, task, loaded, resolved, rexec, applied, submits,
                       crashes>>

\* the operation is not there: it is driven again (steps 4 and 5)
RecoverRedrive(id) == \E ok \in BOOLEAN :
    LET r == Unwrap(mem[id])
        op == Unwrap(r.operation).operation
    IN  /\ rpc[id] = "redrive"
        /\ dp' = [dp EXCEPT ![id] = IF ok THEN Apply(op, r, @) ELSE @]
        /\ applied' = [applied EXCEPT ![id] = IF ok THEN @ + 1 ELSE @]
        /\ rexec' = [rexec EXCEPT ![id] = @ + 1]
        /\ mem' = [mem EXCEPT ![id] = Some(set_op_result(r, ok))]
        /\ store' = [store EXCEPT ![id] = Some(Serialize(set_op_result(r, ok)))]
        /\ rpc' = [rpc EXCEPT ![id] = "resume"]
        /\ UNCHANGED <<task, loaded, resolved, probe, submits, crashes>>

\* result Some(_): recovery resumes at step 6
RecoverResume(id) ==
    LET r == Unwrap(mem[id])
        after == Resolve(r, Unwrap(Unwrap(r.operation).result))
    IN  /\ rpc[id] = "resume"
        /\ store' = [store EXCEPT ![id] = Some(Serialize(after))]
        /\ resolved' = [resolved EXCEPT ![id] = Some(Release(after))]
        /\ IF after.status = StatusDeleted
           THEN /\ mem' = [mem EXCEPT ![id] = Some(after)]
                /\ rpc' = [rpc EXCEPT ![id] = "remove"]
           ELSE /\ mem' = [mem EXCEPT ![id] = Some(Release(after))]
                /\ rpc' = [rpc EXCEPT ![id] = "none"]
        /\ UNCHANGED <<dp, task, loaded, probe, rexec, applied, submits,
                       crashes>>

RecoverRemove(id) ==
    /\ rpc[id] = "remove"
    /\ store' = [store EXCEPT ![id] = None]
    /\ mem' = [mem EXCEPT ![id] = None]
    /\ rpc' = [rpc EXCEPT ![id] = "none"]
    /\ UNCHANGED <<dp, task, loaded, resolved, probe, rexec, applied, submits,
                   crashes>>

NextRec ==
    \/ \E t \in Tasks : Submit(t) /\ UNCHANGED <<txnVars, csiVars, liveVars, extVars>>
    \/ \E t \in Tasks : PersistStart(t) /\ UNCHANGED <<txnVars, csiVars, liveVars, extVars>>
    \/ \E t \in Tasks : PersistStartFails(t) /\ UNCHANGED <<txnVars, csiVars, liveVars, extVars>>
    \/ \E t \in Tasks : Execute(t) /\ UNCHANGED <<txnVars, csiVars, liveVars, extVars>>
    \/ \E t \in Tasks : SetResult(t) /\ UNCHANGED <<txnVars, csiVars, liveVars, extVars>>
    \/ \E t \in Tasks : Finish(t) /\ UNCHANGED <<txnVars, csiVars, liveVars, extVars>>
    \/ \E t \in Tasks : Remove(t) /\ UNCHANGED <<txnVars, csiVars, liveVars, extVars>>
    \/ Restart /\ UNCHANGED <<txnVars, csiVars, liveVars, extVars>>
    \/ \E id \in VolumeIds : RecoverQuery(id) /\ UNCHANGED <<txnVars, csiVars, liveVars, extVars>>
    \/ \E id \in VolumeIds : RecoverRedrive(id) /\ UNCHANGED <<txnVars, csiVars, liveVars, extVars>>
    \/ \E id \in VolumeIds : RecoverResume(id) /\ UNCHANGED <<txnVars, csiVars, liveVars, extVars>>
    \/ \E id \in VolumeIds : RecoverRemove(id) /\ UNCHANGED <<txnVars, csiVars, liveVars, extVars>>

\* ------------------------------------------------------ callers that give up
\* A caller waiting for the executor may time out or be cancelled; its task
\* runs on (section 4.4, steps 5 to 7 run to completion).

LiveIdle == gone = {}

\* the caller of t stops waiting while the executor is at work
Timeout(t) ==
    /\ task[t].pc = "execute"
    /\ t \notin gone
    /\ gone' = gone \cup {t}
    /\ UNCHANGED <<recVars, txnVars, csiVars, extVars>>

\* the Reconciler's tasks without a restart; a new request has a new caller
NextLive ==
    \/ \E t \in Tasks : Submit(t) /\ gone' = gone \ {t}
                                   /\ UNCHANGED <<txnVars, csiVars, extVars>>
    \/ \E t \in Tasks : Timeout(t)
    \/ \E t \in Tasks : PersistStart(t) /\ UNCHANGED <<txnVars, csiVars, liveVars, extVars>>
    \/ \E t \in Tasks : PersistStartFails(t) /\ UNCHANGED <<txnVars, csiVars, liveVars, extVars>>
    \/ \E t \in Tasks : Execute(t) /\ UNCHANGED <<txnVars, csiVars, liveVars, extVars>>
    \/ \E t \in Tasks : SetResult(t) /\ UNCHANGED <<txnVars, csiVars, liveVars, extVars>>
    \/ \E t \in Tasks : Finish(t) /\ UNCHANGED <<txnVars, csiVars, liveVars, extVars>>
    \/ \E t \in Tasks : Remove(t) /\ UNCHANGED <<txnVars, csiVars, liveVars, extVars>>

\* a task that has acquired the guard takes its next step: the store
\* answers, the executor responds
Fairness ==
    \A t \in Tasks :
        /\ WF_vars((PersistStart(t) \/ PersistStartFails(t))
                      /\ UNCHANGED <<txnVars, csiVars, liveVars, extVars>>)
        /\ WF_vars(Execute(t) /\ UNCHANGED <<txnVars, csiVars, liveVars, extVars>>)
        /\ WF_vars(SetResult(t) /\ UNCHANGED <<txnVars, csiVars, liveVars, extVars>>)
        /\ WF_vars(Finish(t) /\ UNCHANGED <<txnVars, csiVars, liveVars, extVars>>)
        /\ WF_vars(Remove(t) /\ UNCHANGED <<txnVars, csiVars, liveVars, extVars>>)

\* ------------------------------------------------------- CSI controller
\* The CSI controller service (controller.rs) on top of the REST client
\* MayastorApiClient (client.rs). The REST gateway answers each request
\* after applying it to the ledger.

Callers == {"c1"}

\* a REST exchange that ended without an HTTP answer
NoAnswer == "no answer"
StatusCodes ==
    {"OK", "NO_CONTENT", "NOT_FOUND", "PRECONDITION_FAILED",
     "INTERNAL_SERVER_ERROR"}

Ok == [ok |-> TRUE, err |-> ""]
Err(e) == [ok |-> FALSE, err |-> e]

\* mutant: the idempotent flag is read the other way round
do_delete_inverted(response, idempotent) ==
    IF response = NoAnswer THEN Err("ServerCommunicationError")
    ELSE CASE response = "OK" -> Ok
           [] response \in {"NOT_FOUND", "NO_CONTENT", "PRECONDITION_FAILED"} ->
                IF ~idempotent THEN Ok ELSE Err("ResourceNotExists")
           [] OTHER -> Err("GenericOperationError")

\* MayastorApiClient::do_delete, from the outcome of the DELETE request
do_delete(response, idempotent) ==
    IF response = NoAnswer THEN Err("ServerCommunicationError")
    ELSE CASE response = "OK" -> Ok
           [] response \in {"NOT_FOUND", "NO_CONTENT", "PRECONDITION_FAILED"} ->
                IF idempotent THEN Ok ELSE Err("ResourceNotExists")
           [] OTHER -> Err("GenericOperationError")

\* MayastorApiClient::delete_volume
delete_volume(response) == do_delete(response, TRUE)

\* MayastorApiClient::unpublish_volume
unpublish_volume(response) == do_delete(response, FALSE)

\* CsiControllerSvc::delete_volume: the gRPC status of the call
csi_delete_volume(response) ==
    IF delete_volume(response).ok THEN "Ok" ELSE "Internal"

\* CsiControllerSvc::controller_unpublish_volume
controller_unpublish_volume(response) ==
    IF unpublish_volume(response).ok THEN "Ok" ELSE "Internal"

CsiRpcs == {"DeleteVolume", "ControllerUnpublishVolume"}

CsiStatus(method, response) ==
    CASE method = "DeleteVolume" -> csi_delete_volume(response)
      [] method = "ControllerUnpublishVolume" ->
            controller_unpublish_volume(response)

\* The gateway's handling of DELETE /volumes/{id}: a Destroy run through the
\* transaction, as <<the record afterwards, how the request ended>>
GwDestroy(rec, ok) ==
    IF rec = None THEN <<None, "gone">>
    ELSE LET r == set_op_result(start_op(Unwrap(rec), OpDestroy), ok)
         IN  IF ok THEN <<Some(commit_op(r)), "done">>
             ELSE <<Some(clear_op(r)), "failed">>

\* The gateway's handling of DELETE /volumes/{id}/target: an Unpublish
GwUnpublish(rec, ok) ==
    IF rec = None THEN <<None, "gone">>
    ELSE IF Unwrap(rec).status # StatusCreatedOnline
            \/ Unwrap(rec).target = None
    THEN <<rec, "rejected">>
    ELSE LET r == set_op_result(start_op(Unwrap(rec), OpUnpublish), ok)
         IN  IF ok THEN <<Some(commit_op(r)), "done">>
             ELSE <<Some(clear_op(r)), "failed">>

\* the HTTP answers of the gateway: a unit result is answered OK or, as
\* JsonUnit does, NO_CONTENT; a missing record or target NOT_FOUND or
\* PRECONDITION_FAILED
Answers(ended) ==
    CASE ended = "done" -> {"OK", "NO_CONTENT"}
      [] ended \in {"gone", "rejected"} -> {"NOT_FOUND", "PRECONDITION_FAILED"}
      [] OTHER -> {"INTERNAL_SERVER_ERROR"}

CsiIdle == [pc |-> "idle", rpc |-> "", id |-> "", response |-> "",
            ended |-> "", after |-> None]

\* V1 exists, published on nexus x1 or not published; V2 does not exist
CsiInit ==
    /\ \E published \in BOOLEAN :
          ledger = [v \in VolumeIds |->
                      IF v # "V1" THEN None
                      ELSE IF published
                      THEN Some([Created(v) EXCEPT
                                    !.target = Some(VolumeTarget("n1", "x1")),
                                    !.last_nexus_id = Some("x1"),
                                    !.protocol = "Nvmf"])
                      ELSE Some(Created(v))]
    /\ csi = [c \in Callers |-> CsiIdle]
    /\ log = << >>

CsiIdleInit ==
    /\ ledger = [v \in VolumeIds |-> None]
    /\ csi = [c \in Callers |-> CsiIdle]
    /\ log = << >>

\* a CSI call starts and sends its REST request
CsiCall(c) == \E method \in CsiRpcs, id \in VolumeIds :
    /\ csi[c].pc = "idle"
    /\ Len(log) < MaxCsiCalls
    /\ csi' = [csi EXCEPT ![c] = [CsiIdle EXCEPT !.pc = "sent", !.rpc = method,
                                                 !.id = id]]
    /\ UNCHANGED <<ledger, log, txnVars, recVars, liveVars, extVars>>

\* the gateway applies the request to the ledger and answers; the answer
\* may not reach the client
GwHandle(c) == \E ok \in BOOLEAN, lost \in BOOLEAN :
    LET id == csi[c].id
        out == IF csi[c].rpc = "DeleteVolume" THEN GwDestroy(ledger[id], ok)
               ELSE GwUnpublish(ledger[id], ok)
    IN  /\ csi[c].pc = "sent"
        /\ ledger' = [ledger EXCEPT ![id] = out[1]]
        /\ \E answer \in Answers(out[2]) :
              csi' = [csi EXCEPT ![c].pc = "answered",
                                 ![c].response = IF lost THEN NoAnswer
                                                 ELSE answer,
                                 ![c].ended = out[2],
                                 ![c].after = out[1]]
        /\ UNCHANGED <<log, txnVars, recVars, liveVars, extVars>>

\* the client turns the answer into its result and the CSI call returns
CsiReturn(c) ==
    /\ csi[c].pc = "answered"
    /\ log' = Append(log, [rpc |-> csi[c].rpc, id |-> csi[c].id,
                           response |-> csi[c].response,
                           ended |-> csi[c].ended,
                           after |-> csi[c].after,
                           status |-> CsiStatus(csi[c].rpc, csi[c].response)])
    /\ csi' = [csi EXCEPT ![c] = CsiIdle]
    /\ UNCHANGED <<ledger, txnVars, recVars, liveVars, extVars>>

\* the physical removal of a Deleted record
GwPurge(id) ==
    /\ ledger[id] # None
    /\ Unwrap(ledger[id]).status = StatusDeleted
    /\ \A c \in Callers : csi[c].pc = "idle"
    /\ ledger' = [ledger EXCEPT ![id] = None]
    /\ UNCHANGED <<csi, log, txnVars, recVars, liveVars, extVars>>

NextCsi ==
    \/ \E c \in Callers : CsiCall(c)
    \/ \E c \in Callers : GwHandle(c)
    \/ \E c \in Callers : CsiReturn(c)
    \/ \E id \in VolumeIds : GwPurge(id)

\* ------------------------------------------- CSI CreateVolume and publish
\* CsiControllerSvc::create_volume and controller_publish_volume, called by
\* two clients at once. Each request is a sequence of REST exchanges with
\* the gateway; the gateway handles one request at a time.

VolCallers == {"c1", "c2"}

\* the REST Protocol of a volume state, as its to_string()
Protocols == {"none", "nvmf", "iscsi"}

\* parse_protocol, on the protocol string of the volume context
parse_protocol(proto) ==
    CASE proto = "iscsi" -> Some("Iscsi")
      [] proto = "nvmf" -> Some("Nvmf")
      [] OTHER -> None

\* the REST Volume: its spec and the state the data-plane reports
RestVolume(uuid, status, num_replicas, size, state) ==
    [spec |-> [uuid |-> uuid, status |-> status,
               num_replicas |-> num_replicas, size |-> size],
     state |-> state]

\* a volume state: the protocol and the nexus (child) with its device URI
RestState(protocol, child) == [protocol |-> protocol, child |-> child]
Unpublished == RestState("none", None)
Nexus(device_uri) == [device_uri |-> device_uri]
ShareUri(id, protocol) == <<protocol, id>>
NoUri == << >>

\* mutant: the URI of a volume without a nexus is the empty URI
get_volume_share_uri_lenient(volume) ==
    IF volume.state = None THEN [ok |-> FALSE, uri |-> NoUri]
    ELSE IF Unwrap(volume.state).child = None THEN [ok |-> TRUE, uri |-> NoUri]
    ELSE LET uri == Unwrap(Unwrap(volume.state).child).device_uri
         IN  [ok |-> TRUE, uri |-> uri]

\* get_volume_share_uri: Ok(uri) or Status::internal
get_volume_share_uri(volume) ==
    IF volume.state = None THEN [ok |-> FALSE, uri |-> NoUri]
    ELSE IF Unwrap(volume.state).child = None THEN [ok |-> FALSE, uri |-> NoUri]
    ELSE LET uri == Unwrap(Unwrap(volume.state).child).device_uri
         IN  IF uri = NoUri THEN [ok |-> FALSE, uri |-> NoUri]
             ELSE [ok |-> TRUE, uri |-> uri]

\* impl From<ApiClientError> for Status
StatusFrom(error) ==
    IF error = "ResourceNotExists" THEN "NotFound" ELSE "Internal"

\* mutant: an existing volume is accepted whatever its size
check_existing_volume_any_size(volume, replica_count, size) ==
    IF volume.spec.status # "Created" THEN "AlreadyExists"
    ELSE IF volume.spec.num_replicas < replica_count THEN "AlreadyExists"
    ELSE "Ok"

\* check_existing_volume: Ok or Status::already_exists
check_existing_volume(volume, replica_count, size) ==
    IF volume.spec.status # "Created" THEN "AlreadyExists"
    ELSE IF volume.spec.num_replicas < replica_count THEN "AlreadyExists"
    ELSE IF volume.spec.size < size THEN "AlreadyExists"
    ELSE "Ok"

\* MayastorApiClient::do_put, from the outcome of the PUT request
do_put(response) ==
    IF response = NoAnswer THEN Err("ServerCommunicationError")
    ELSE CASE response = "OK" -> Ok
           [] response = "UNPROCESSABLE_ENTITY" -> Err("ResourceAlreadyExists")
           [] OTHER -> Err("GenericOperationError")

\* MayastorApiClient::get_collection_item, from the outcome of the GET
get_collection_item(response) ==
    IF response = NoAnswer THEN Err("ServerCommunicationError")
    ELSE CASE response = "OK" -> Ok
           [] response = "NOT_FOUND" -> Err("ResourceNotExists")
           [] OTHER -> Err("GenericOperationError")

\* MayastorApiClient::get_collection, from the outcome of the GET
get_collection(response) ==
    IF response = NoAnswer THEN Err("ServerCommunicationError") ELSE Ok

VolRpcs == {"CreateVolume", "ControllerPublishVolume"}

VolIdle ==
    [pc |-> "idle", rpc |-> "", id |-> "", replicas |-> 0, size |-> 0,
     protocol |-> "", listed |-> FALSE, found |-> None, creates |-> 0,
     publishes |-> 0]

\* the requests a client makes
VolRequests ==
    {[VolIdle EXCEPT !.rpc = "CreateVolume", !.id = id, !.replicas = n[1],
                     !.size = n[2]] :
        id \in VolumeIds, n \in {<<1, 1024>>, <<2, 1024>>, <<1, 2048>>}}
    \cup {[VolIdle EXCEPT !.rpc = "ControllerPublishVolume", !.id = n[1],
                          !.protocol = n[2]] :
            n \in {<<"V1", "nvmf">>, <<"V1", "iscsi">>, <<"V1", "nbd">>,
                   <<"V2", "nvmf">>}}

\* the states the data-plane may report for a volume
RestStates(id) ==
    {None, Some(Unpublished),
     Some(RestState("nvmf", None)),
     Some(RestState("nvmf", Some(Nexus(NoUri)))),
     Some(RestState("nvmf", Some(Nexus(ShareUri(id, "nvmf")))))}

\* V1 exists, V2 does not
VolInit ==
    /\ \E v \in {RestVolume("V1", "Creating", 1, 1024, Some(Unpublished)),
                 RestVolume("V1", "Created", 2, 2048, Some(Unpublished))}
                \cup {RestVolume("V1", "Created", 1, 1024, s) :
                        s \in RestStates("V1")} :
          volumes = [id \in VolumeIds |-> IF id = "V1" THEN Some(v) ELSE None]
    /\ ctl = [c \in VolCallers |-> VolIdle]
    /\ replies = << >>

VolIdleInit ==
    /\ volumes = [id \in VolumeIds |-> None]
    /\ ctl = [c \in VolCallers |-> VolIdle]
    /\ replies = << >>

\* the request r of c returns with a gRPC status
VolReturn(c, r, status, cause, uri) ==
    /\ replies' = Append(replies, [rpc |-> r.rpc, id |-> r.id,
                                   replicas |-> r.replicas, size |-> r.size,
                                   protocol |-> r.protocol,
                                   listed |-> r.listed,
                                   found |-> r.found,
                                   creates |-> r.creates,
                                   publishes |-> r.publishes,
                                   status |-> status, cause |-> cause,
                                   uri |-> uri])
    /\ ctl' = [ctl EXCEPT ![c] = VolIdle]

\* a CSI request arrives; with valid arguments its first REST request, the
\* listing of the volumes or the GET of the volume, is sent
VolCall(c) == \E request \in VolRequests :
    /\ ctl[c].pc = "idle"
    /\ Len(replies) + Cardinality({d \in VolCallers : ctl[d].pc # "idle"})
          < MaxCsiCalls
    /\ IF request.rpc = "ControllerPublishVolume"
          /\ parse_protocol(request.protocol) = None
       THEN VolReturn(c, request, "InvalidArgument", "", NoUri)
       ELSE /\ ctl' = [ctl EXCEPT ![c] =
                         [request EXCEPT !.pc = IF request.rpc = "CreateVolume"
                                                THEN "list" ELSE "get"]]
            /\ UNCHANGED replies
    /\ UNCHANGED volumes

\* The gateway answers GET /volumes and create_volume carries on from
\* list_volumes().find(uuid): an existing volume is checked, an absent one
\* is created through the REST API
CreateListed(c) == \E lost \in BOOLEAN :
    LET listing == get_collection(IF lost THEN NoAnswer ELSE "OK")
        found == volumes[ctl[c].id]
        r == [ctl[c] EXCEPT !.listed = TRUE, !.found = found]
        checked == check_existing_volume(Unwrap(found), r.replicas, r.size)
    IN  /\ ctl[c].pc = "list"
        /\ IF ~listing.ok
           THEN VolReturn(c, ctl[c], StatusFrom(listing.err), listing.err,
                          NoUri)
           ELSE IF found # None
           THEN IF checked = "Ok"
                THEN /\ ctl' = [ctl EXCEPT ![c] = [r EXCEPT !.pc = "nodes"]]
                     /\ UNCHANGED replies
                ELSE VolReturn(c, r, checked, "", NoUri)
           ELSE /\ ctl' = [ctl EXCEPT ![c] = [r EXCEPT !.pc = "put",
                                                      !.creates = @ + 1]]
                /\ UNCHANGED replies
        /\ UNCHANGED volumes

\* The gateway's answers to PUT /volumes/{id}. The REST create is not
\* idempotent (client.rs, create_volume): a volume that exists is answered
\* UNPROCESSABLE_ENTITY, or OK when the request is equivalent to its spec
\* (section 4.4, step 2)
GwCreate(volume, replicas, size, ok) ==
    IF volume = None
    THEN IF ok THEN {"OK"} ELSE {"INTERNAL_SERVER_ERROR"}
    ELSE {"UNPROCESSABLE_ENTITY"}
         \cup IF /\ ok
                 /\ Unwrap(volume).spec.num_replicas = replicas
                 /\ Unwrap(volume).spec.size = size
              THEN {"OK"} ELSE {}

\* The gateway handles PUT /volumes/{id} and create_volume carries on from
\* the answer: `?` turns an ApiClientError into the Status of the request
CreatePut(c) == \E ok \in BOOLEAN, lost \in BOOLEAN :
    LET id == ctl[c].id
        new == RestVolume(id, "Created", ctl[c].replicas, ctl[c].size,
                          Some(Unpublished))
    IN  /\ ctl[c].pc = "put"
        /\ \E answer \in GwCreate(volumes[id], ctl[c].replicas, ctl[c].size,
                                  ok) :
              LET created == do_put(IF lost THEN NoAnswer ELSE answer)
              IN  /\ volumes' = IF volumes[id] = None /\ ok
                                THEN [volumes EXCEPT ![id] = Some(new)]
                                ELSE volumes
                  /\ IF created.ok
                     THEN /\ ctl' = [ctl EXCEPT ![c].pc = "nodes"]
                          /\ UNCHANGED replies
                     ELSE VolReturn(c, ctl[c], StatusFrom(created.err),
                                    created.err, NoUri)

\* VolumeTopologyMapper::init lists the nodes, and create_volume returns
VolNodes(c) == \E lost \in BOOLEAN :
    /\ ctl[c].pc = "nodes"
    /\ IF lost
       THEN VolReturn(c, ctl[c], "FailedPrecondition",
                      "ServerCommunicationError", NoUri)
       ELSE VolReturn(c, ctl[c], "Ok", "", NoUri)
    /\ UNCHANGED volumes

\* The gateway answers GET /volumes/{id} and controller_publish_volume
\* carries on from get_volume: a published volume is answered from its
\* state, an unpublished one is published through the REST API
PublishGot(c) == \E lost \in BOOLEAN :
    LET found == volumes[ctl[c].id]
        got == get_collection_item(IF lost THEN NoAnswer
                                   ELSE IF found = None THEN "NOT_FOUND"
                                   ELSE "OK")
        r == [ctl[c] EXCEPT !.listed = TRUE, !.found = found]
        volume == Unwrap(found)
        curr_proto == Unwrap(volume.state).protocol
        share == get_volume_share_uri(volume)
    IN  /\ ctl[c].pc = "get"
        /\ IF ~got.ok
           THEN VolReturn(c, ctl[c], StatusFrom(got.err), got.err, NoUri)
           ELSE IF volume.state = None
           THEN VolReturn(c, r, "Internal", "", NoUri)
           ELSE IF curr_proto # "none"
           THEN IF curr_proto # r.protocol
                THEN VolReturn(c, r, "FailedPrecondition", "", NoUri)
                ELSE IF share.ok THEN VolReturn(c, r, "Ok", "", share.uri)
                ELSE VolReturn(c, r, "Internal", "", NoUri)
           ELSE /\ ctl' = [ctl EXCEPT ![c] = [r EXCEPT !.pc = "publish",
                                                      !.publishes = @ + 1]]
                /\ UNCHANGED replies
        /\ UNCHANGED volumes

\* The gateway's answer to PUT /volumes/{id}/target: a volume that is gone
\* or already published is refused
GwPublish(volume, ok) ==
    IF volume = None THEN "NOT_FOUND"
    ELSE IF Unwrap(volume).state # Some(Unpublished)
    THEN "PRECONDITION_FAILED"
    ELSE IF ok THEN "OK" ELSE "INTERNAL_SERVER_ERROR"

\* The gateway handles PUT /volumes/{id}/target, the volume gets a nexus
\* shared over the protocol, and controller_publish_volume carries on from
\* the answer
PublishPut(c) == \E ok \in BOOLEAN, lost \in BOOLEAN :
    LET id == ctl[c].id
        state == RestState(ctl[c].protocol,
                           Some(Nexus(ShareUri(id, ctl[c].protocol))))
        answer == GwPublish(volumes[id], ok)
        published == do_put(IF lost THEN NoAnswer ELSE answer)
        share == get_volume_share_uri(Unwrap(volumes'[id]))
    IN  /\ ctl[c].pc = "publish"
        /\ volumes' = IF answer = "OK"
                      THEN [volumes EXCEPT ![id] =
                              Some([Unwrap(@) EXCEPT !.state = Some(state)])]
                      ELSE volumes
        /\ IF ~published.ok
           THEN VolReturn(c, ctl[c], StatusFrom(published.err),
                          published.err, NoUri)
           ELSE IF share.ok THEN VolReturn(c, ctl[c], "Ok", "", share.uri)
           ELSE VolReturn(c, ctl[c], "Internal", "", NoUri)

NextVol ==
    \/ \E c \in VolCallers : VolCall(c) /\ UNCHANGED notVol
    \/ \E c \in VolCallers : CreateListed(c) /\ UNCHANGED notVol
    \/ \E c \in VolCallers : CreatePut(c) /\ UNCHANGED notVol
    \/ \E c \in VolCallers : VolNodes(c) /\ UNCHANGED notVol
    \/ \E c \in VolCallers : PublishGot(c) /\ UNCHANGED notVol
    \/ \E c \in VolCallers : PublishPut(c) /\ UNCHANGED notVol

\* ------------------------------------------------- the API client instance
\* static REST_CLIENT: OnceCell<MayastorApiClient> and the threads that call
\* MayastorApiClient::initialize and get_client (client.rs).

Threads == {"t1", "t2", "t3"}
Endpoints == {"http://e1", "http://e2"}

\* format!("{}/v0", endpoint)
BaseUrl(endpoint) == <<endpoint, "/v0">>

BootIdle == [pc |-> "idle", endpoint |-> "", result |-> ""]

ClientIdle ==
    /\ REST_CLIENT = None
    /\ boot = [t \in Threads |-> BootIdle]
    /\ seen = {}

\* OnceCell::get_or_init: the cell afterwards
get_or_init(cell, value) == IF cell = None THEN Some(value) ELSE cell

\* initialize up to its check of the cell: a set cell ends the call with
\* the error, an empty one lets it go on to build the reqwest client
InitializeCheck(t) == \E endpoint \in Endpoints :
    /\ boot[t].pc = "idle"
    /\ boot' = [boot EXCEPT ![t] =
                  IF REST_CLIENT # None
                  THEN [pc |-> "returned", endpoint |-> endpoint,
                        result |-> "already initialized"]
                  ELSE [pc |-> "checked", endpoint |-> endpoint,
                        result |-> ""]]
    /\ UNCHANGED <<REST_CLIENT, seen>>

\* initialize from get_or_init to its return of Ok(())
InitializeSet(t) ==
    /\ boot[t].pc = "checked"
    /\ REST_CLIENT' =
          get_or_init(REST_CLIENT, [base_url |-> BaseUrl(boot[t].endpoint)])
    /\ boot' = [boot EXCEPT ![t].pc = "returned", ![t].result = "Ok"]
    /\ UNCHANGED seen

\* get_client, and the base URL its caller reads; it panics on an empty cell
GetClient(t) ==
    /\ boot[t].pc # "checked"
    /\ seen' = seen \cup {IF REST_CLIENT = None THEN <<"panic">>
                          ELSE Unwrap(REST_CLIENT).base_url}
    /\ seen' # seen
    /\ UNCHANGED <<REST_CLIENT, boot>>

\* a thread that has returned from initialize may call it again
InitializeAgain(t) ==
    /\ boot[t].pc = "returned"
    /\ boot[t].result = "already initialized"
    /\ boot' = [boot EXCEPT ![t] = BootIdle]
    /\ UNCHANGED <<REST_CLIENT, seen>>

NextClient ==
    \/ \E t \in Threads : InitializeCheck(t) /\ UNCHANGED notClient
    \/ \E t \in Threads : InitializeSet(t) /\ UNCHANGED notClient
    \/ \E t \in Threads : GetClient(t) /\ UNCHANGED notClient
    \/ \E t \in Threads : InitializeAgain(t) /\ UNCHANGED notClient

\* ------------------------------------------------------ loopback devices
\* impl CreateDestroy for Loopback (loopback.rs): a loopback device is an
\* alias of a bdev that exists already.

BdevNames == {"b1"}
Uuids == {"u1", "u2"}

\* the device of a loopback:///name?uuid=... URI
Loopback(name, uuid) ==
    [name |-> name, alias |-> <<"loopback", name, uuid>>, uuid |-> uuid]
Loopbacks == {Loopback(n, u) : n \in BdevNames,
                               u \in {None} \cup {Some(x) : x \in Uuids}}

Bdev(uuid, aliases) == [uuid |-> uuid, aliases |-> aliases]

LoopIdle ==
    /\ bdevs = [n \in BdevNames |-> None]
    /\ children = {}
    /\ lbcalls = << >>

LoopInit ==
    /\ \E b \in {None} \cup {Some(Bdev(u, {})) : u \in Uuids} :
          bdevs = [n \in BdevNames |-> b]
    /\ children \in SUBSET BdevNames
    /\ lbcalls = << >>

\* Loopback::create on what lookup_by_name(name) finds: the result and the
\* bdev afterwards
LoopbackCreate(self, found) ==
    IF found # None
    THEN IF self.uuid # None /\ Some(Unwrap(found).uuid) # self.uuid
         THEN [result |-> "BdevWrongUuid", bdev |-> found]
         ELSE [result |-> "Ok",
               bdev |-> Some([Unwrap(found) EXCEPT
                                !.aliases = @ \cup {self.alias}])]
    ELSE [result |-> "BdevNotFound", bdev |-> found]

\* mutant: destroy fails on a bdev that is not found
LoopbackDestroy_strict(self, found) ==
    IF found # None
    THEN [result |-> "Ok",
          bdev |-> Some([Unwrap(found) EXCEPT
                           !.aliases = @ \ {self.alias}])]
    ELSE [result |-> "BdevNotFound", bdev |-> found]

\* Loopback::destroy on what lookup_by_name(name) finds
LoopbackDestroy(self, found) ==
    IF found # None
    THEN [result |-> "Ok",
          bdev |-> Some([Unwrap(found) EXCEPT
                           !.aliases = @ \ {self.alias}])]
    ELSE [result |-> "Ok", bdev |-> found]

\* a call, what its lookups found and its result
LbCall(fn, self, result) ==
    [fn |-> fn, device |-> self, bdev |-> bdevs[self.name] # None,
     child |-> self.name \in children, result |-> result]

\* create() of a loopback device
Create(self) ==
    LET out == LoopbackCreate(self, bdevs[self.name])
    IN  /\ Len(lbcalls) < MaxLoopCalls
        /\ bdevs' = [bdevs EXCEPT ![self.name] = out.bdev]
        /\ lbcalls' = Append(lbcalls, LbCall("create", self, out.result))
        /\ UNCHANGED children

\* destroy() of a loopback device: a nexus child of the name is unplugged,
\* the alias is taken off the bdev
Destroy(self) ==
    LET out == LoopbackDestroy(self, bdevs[self.name])
    IN  /\ Len(lbcalls) < MaxLoopCalls
        /\ children' = children \ {self.name}
        /\ bdevs' = [bdevs EXCEPT ![self.name] = out.bdev]
        /\ lbcalls' = Append(lbcalls, LbCall("destroy", self, out.result))

\* the rest of the io-engine: the bdev of a name is created or destroyed by
\* its own module, a nexus opens it as a child
BdevAdded(name) == \E u \in Uuids :
    /\ bdevs[name] = None
    /\ bdevs' = [bdevs EXCEPT ![name] = Some(Bdev(u, {}))]
    /\ UNCHANGED <<children, lbcalls>>

BdevRemoved(name) ==
    /\ bdevs[name] # None
    /\ bdevs' = [bdevs EXCEPT ![name] = None]
    /\ UNCHANGED <<children, lbcalls>>

ChildAdded(name) ==
    /\ bdevs[name] # None
    /\ name \notin children
    /\ children' = children \cup {name}
    /\ UNCHANGED <<bdevs, lbcalls>>

NextLoopback ==
    \/ \E self \in Loopbacks : Create(self) /\ UNCHANGED notLoop
    \/ \E self \in Loopbacks : Destroy(self) /\ UNCHANGED notLoop
    \/ \E name \in BdevNames : BdevAdded(name) /\ UNCHANGED notLoop
    \/ \E name \in BdevNames : BdevRemoved(name) /\ UNCHANGED notLoop
    \/ \E name \in BdevNames : ChildAdded(name) /\ UNCHANGED notLoop

\* ------------------------------------------------------- CSI GetCapacity
\* CsiControllerSvc::get_capacity (controller.rs): the pools of a node or of
\* the cluster are listed and their capacities folded into one number. The
\* capacities are small, so the cast to i64 and the additions are exact.

PoolStatuses == {"Unknown", "Online", "Degraded", "Faulted"}
PoolCapacities == {1, 2}

\* a Pool of the REST API: its state, if it reports one
Pool(state) == [state |-> state]
PoolState(status, cap) == [status |-> status, capacity |-> cap]
Pools ==
    {Pool(None)}
    \cup {Pool(Some(PoolState(st, cap))) :
            st \in PoolStatuses, cap \in PoolCapacities}

\* the listings the gateway may answer with
PoolLists == UNION {[1..n -> Pools] : n \in 0..MaxPools}

\* the closure get_capacity folds the pools with
capacity_fold(acc, p) ==
    IF p.state = None THEN 0
    ELSE IF Unwrap(p.state).status \in {"Online", "Degraded"}
    THEN acc + Unwrap(p.state).capacity
    ELSE acc

\* pools.into_iter().fold(0, ...)
RECURSIVE available_capacity(_)
available_capacity(pools) ==
    IF pools = << >> THEN 0
    ELSE capacity_fold(available_capacity(SubSeq(pools, 1, Len(pools) - 1)),
                       pools[Len(pools)])

CapIdle ==
    /\ capcall = [pc |-> "idle", node |-> None]
    /\ capacity = None

\* a GetCapacity request with valid capabilities arrives, for a node of the
\* accessible topology or for the cluster; its listing is sent
CapCall == \E node \in {None} \cup {Some(n) : n \in NodeIds} :
    /\ capcall.pc = "idle"
    /\ capcall' = [pc |-> "list", node |-> node]
    /\ capacity' = None

\* the gateway answers get_node_pools or list_pools, and get_capacity
\* returns the folded capacity, or Status::internal
CapListed == \E lost \in BOOLEAN, pools \in PoolLists :
    /\ capcall.pc = "list"
    /\ capcall' = [capcall EXCEPT !.pc = "idle"]
    /\ capacity' =
          IF lost
          THEN Some([pools |-> << >>, status |-> "Internal",
                     available_capacity |-> 0])
          ELSE Some([pools |-> pools, status |-> "Ok",
                     available_capacity |-> available_capacity(pools)])

NextCapacity ==
    \/ CapCall /\ UNCHANGED notCap
    \/ CapListed /\ UNCHANGED notCap

\* ------------------------------------------------------------ NullNg device
\* The NullNg bdev (null_ng/mod.rs): each I/O channel has a queue of
\* requests and a poller that completes them.

Channels == {"ch1", "ch2"}
IoTypes == {"Read", "Write", "Unmap", "Flush"}
Ios == 1..MaxIos

\* a request: not submitted yet, or its channel and type, its state, and
\* the number of times it has been completed
NoBio == [chan |-> "", io_type |-> "", state |-> "free", completions |-> 0]

NullIdle ==
    /\ iovs = [ch \in Channels |-> << >>]
    /\ bios = [b \in Ios |-> NoBio]
    /\ polled = [ch \in Channels |-> 0]

\* io_type_supported, and the match of submit_request
io_type_supported(io_type) == io_type \in {"Read", "Write"}

\* mutant: the poller takes the first request of the queue only
poll_fn_first(queue) ==
    IF queue = << >> THEN [ready |-> << >>, left |-> << >>, cnt |-> 0]
    ELSE [ready |-> <<Head(queue)>>, left |-> Tail(queue), cnt |-> 1]

\* the poll function of a channel on its queue: the requests it takes,
\* the queue it leaves, the count it returns
poll_fn(queue) == [ready |-> queue, left |-> << >>, cnt |-> Len(queue)]

\* submit_request of request b of the type on the channel
SubmitRequest(b) == \E ch \in Channels, io_type \in IoTypes :
    /\ bios[b].state = "free"
    /\ \A a \in Ios : a < b => bios[a].state # "free"
    /\ IF io_type_supported(io_type)
       THEN /\ iovs' = [iovs EXCEPT ![ch] = Append(@, b)]
            /\ bios' = [bios EXCEPT ![b] =
                          [chan |-> ch, io_type |-> io_type,
                           state |-> "queued", completions |-> 0]]
       ELSE /\ iovs' = iovs
            /\ bios' = [bios EXCEPT ![b] =
                          [chan |-> ch, io_type |-> io_type,
                           state |-> "failed", completions |-> 1]]
    /\ UNCHANGED polled

\* a run of the poller of the channel
Poll(ch) ==
    LET run == poll_fn(iovs[ch])
        ready == {run.ready[i] : i \in 1..Len(run.ready)}
    IN  /\ iovs' = [iovs EXCEPT ![ch] = run.left]
        /\ bios' = [b \in Ios |->
                      IF b \in ready
                      THEN [bios[b] EXCEPT !.state = "ok",
                                           !.completions = @ + 1]
                      ELSE bios[b]]
        /\ polled' = [polled EXCEPT ![ch] = run.cnt]

NextNull ==
    \/ \E b \in Ios : SubmitRequest(b) /\ UNCHANGED notNull
    \/ \E ch \in Channels : Poll(ch) /\ UNCHANGED notNull

\* ------------------------------------------------------------------- claims

\* the pcs at which a task holds the guard of the id it works on
Holding == {"persist_start", "execute", "set_result", "finish", "remove"}

\* who holds the guard of id: the tasks between acquire and release, and
\* recovery while it resolves the record
Holders(id) ==
    {t \in Tasks : task[t].pc \in Holding /\ task[t].id = id}
    \cup (IF rpc[id] # "none" THEN {Recovery} ELSE {})

\* this step is a request submitted by task t
SubmitBy(t) == submits' = submits + 1 /\ task'[t] # task[t]

\* the persisted fields of a record, the pending operation apart
ConfigFields ==
    {"uuid", "size", "labels", "num_replicas", "protocol", "status", "target",
     "policy", "topology", "last_nexus_id"}

\* the fold table of section 4.2, field by field: the record that
\* committing op on the record pre must give
FoldTable(pre, op) ==
    [uuid |-> pre.uuid,
     size |-> pre.size,
     labels |-> pre.labels,
     num_replicas |-> IF op.kind = "SetReplica" THEN op.count
                      ELSE pre.num_replicas,
     protocol |-> IF op.kind \in {"Unshare", "Unpublish"} THEN "None"
                  ELSE IF op.kind = "Share" THEN Unwrap(op.share)
                  ELSE IF op.kind = "Publish"
                       THEN (IF op.share = None THEN "None"
                             ELSE Unwrap(op.share))
                  ELSE pre.protocol,
     status |-> IF op.kind = "Destroy" THEN <<"Deleted">>
                ELSE IF op.kind = "Create" THEN <<"Created", "Online">>
                ELSE pre.status,
     target |-> IF op.kind = "Publish"
                THEN <<[node |-> op.node, nexus |-> op.nexus]>>
                ELSE IF op.kind = "Unpublish" THEN << >>
                ELSE pre.target,
     policy |-> pre.policy,
     topology |-> pre.topology,
     sequencer |-> pre.sequencer,
     last_nexus_id |-> IF op.kind = "Publish" THEN <<op.nexus>>
                       ELSE pre.last_nexus_id,
     operation |-> << >>]

PendingOp(r) == Unwrap(r.operation).operation
PendingResult(r) == Unwrap(r.operation).result

\* C1: mutual exclusion. For every volume id at most one holder (a task
\* between acquire and release, or recovery) has the Sequencer guard, the
\* guard names that holder, and a request submitted while the guard of its
\* id is held returns Busy without touching the record.
C1_MutualExclusion ==
    /\ [](\A id \in VolumeIds :
            /\ Cardinality(Holders(id)) <= 1
            /\ \A h \in Holders(id) :
                  mem[id] # None /\ Unwrap(mem[id]).sequencer = h)
    /\ [][\A t \in Tasks :
            (/\ SubmitBy(t)
             /\ mem[task'[t].id] # None
             /\ Unwrap(mem[task'[t].id]).sequencer # Unlocked)
            => /\ task'[t].pc = "done"
               /\ task'[t].ret = "Busy"
               /\ mem' = mem]_vars

\* C1 witness: a task holds the guard of an id while another task's request
\* on the same id has returned Busy
C1_Witness ==
    \E t1, t2 \in Tasks :
        /\ t1 # t2
        /\ task[t1].pc \in Holding
        /\ task[t2].pc = "done" /\ task[t2].ret = "Busy"
        /\ task[t2].id = task[t1].id

\* C2: while an operation is pending on a volume record, a request for a
\* different operation on the same id is rejected with Busy, and neither
\* the in-memory record (with its pending operation) nor the stored record
\* changes.
C2_PendingRejectsWithBusy ==
    [][\A t \in Tasks :
         (/\ SubmitBy(t)
          /\ mem[task'[t].id] # None
          /\ pending_op(Unwrap(mem[task'[t].id])))
         => /\ task'[t].pc = "done"
            /\ task'[t].ret = "Busy"
            /\ mem' = mem
            /\ store' = store]_vars

\* C2 witness: SetReplica was rejected with Busy while Publish is pending
\* on the same volume
C2_Witness ==
    \E t1, t2 \in Tasks :
        /\ task[t1].pc \in {"execute", "set_result", "finish"}
        /\ task[t1].op.kind = "Publish"
        /\ mem[task[t1].id] # None
        /\ pending_op(Unwrap(mem[task[t1].id]))
        /\ PendingOp(Unwrap(mem[task[t1].id])).kind = "Publish"
        /\ task[t2].pc = "done" /\ task[t2].ret = "Busy"
        /\ task[t2].op.kind = "SetReplica"
        /\ task[t2].id = task[t1].id

\* C3 (as claimed): a pending operation, whatever its result, is removed or
\* replaced only by commit_op or clear_op; a start_op called while
\* pending_op() is true leaves the recorded operation as it is.
C3_PendingOnlyRemovedByCommitOrClear ==
    \A i \in 1..Len(calls) :
        (pending_op(trace[i]) /\ calls[i].fn \notin {"commit_op", "clear_op"})
        => /\ pending_op(trace[i + 1])
           /\ PendingOp(trace[i + 1]) = PendingOp(trace[i])
           /\ (calls[i].fn = "start_op"
               => trace[i + 1].operation = trace[i].operation)

\* C4: the record after commit_op is the fold of section 4.2 of the record
\* before it and its pending operation, for every operation variant, and
\* has no pending operation.
C4_CommitIsFold ==
    \A i \in 1..Len(calls) :
        (calls[i].fn = "commit_op" /\ pending_op(trace[i]))
        => trace[i + 1] = FoldTable(trace[i], PendingOp(trace[i]))

\* C4 witness: a Publish was committed and the record has its target
C4_Witness ==
    \E i \in 1..Len(calls) :
        /\ calls[i].fn = "commit_op"
        /\ pending_op(trace[i])
        /\ PendingOp(trace[i]).kind = "Publish"
        /\ trace[i + 1].target = Some(VolumeTarget("n1", "x1"))
        /\ trace[i + 1].last_nexus_id = Some("x1")
        /\ trace[i + 1].protocol = "Nvmf"

\* C5: on a record with no pending operation, start_op(op), optionally
\* set_op_result(r), then clear_op gives back the record as it was before
\* start_op, field for field.
C5_ClearRestores ==
    \A i \in 1..Len(calls) :
        (calls[i].fn = "start_op" /\ ~pending_op(trace[i]))
        => /\ (i + 1 <= Len(calls) /\ calls[i + 1].fn = "clear_op")
                => trace[i + 2] = trace[i]
           /\ (/\ i + 2 <= Len(calls)
               /\ calls[i + 1].fn = "set_op_result"
               /\ calls[i + 2].fn = "clear_op")
                => trace[i + 3] = trace[i]

\* C5 witness: SetReplica was started on a committed record, its result
\* set to failure, and cleared
C5_Witness ==
    /\ Len(calls) = 4
    /\ calls[2].fn = "start_op" /\ calls[2].op.kind = "SetReplica"
    /\ calls[2].op.count # trace[2].num_replicas
    /\ ~pending_op(trace[2])
    /\ calls[3].fn = "set_op_result" /\ ~calls[3].res
    /\ calls[4].fn = "clear_op"

\* C6: a record reloaded with result Some(true) is brought by recovery to
\* the record an uninterrupted commit would have produced (the fold of the
\* reloaded record, guard released), without a call of the executor.
C6_RecoveryCommits ==
    \A id \in VolumeIds :
        (/\ resolved[id] # None
         /\ loaded[id] # None
         /\ PendingResult(Unwrap(loaded[id])) = Some(TRUE))
        => /\ Unwrap(resolved[id]) =
                [FoldTable(Unwrap(loaded[id]), PendingOp(Unwrap(loaded[id])))
                    EXCEPT !.sequencer = Unlocked]
           /\ rexec[id] = 0
           /\ probe[id] = None

\* C6 witness: recovery has resolved a Publish reloaded with Some(true)
C6_Witness ==
    \E id \in VolumeIds :
        /\ resolved[id] # None
        /\ loaded[id] # None
        /\ PendingResult(Unwrap(loaded[id])) = Some(TRUE)
        /\ PendingOp(Unwrap(loaded[id])).kind = "Publish"
        /\ Unwrap(resolved[id]).target # None

\* C7: a record reloaded with result Some(false) is resolved by clear_op:
\* every configuration field, the status and the target are those of the
\* reloaded record, which are those from before the operation started, and
\* operation is None.
C7_RecoveryClears ==
    \A id \in VolumeIds :
        (/\ resolved[id] # None
         /\ loaded[id] # None
         /\ PendingResult(Unwrap(loaded[id])) = Some(FALSE))
        => /\ \A f \in ConfigFields :
                 Unwrap(resolved[id])[f] = Unwrap(loaded[id])[f]
           /\ Unwrap(resolved[id]).operation = None
           /\ rexec[id] = 0

\* C7 witness: recovery has resolved a SetReplica reloaded with Some(false)
\* whose count differs from the record's
C7_Witness ==
    \E id \in VolumeIds :
        /\ resolved[id] # None
        /\ loaded[id] # None
        /\ PendingResult(Unwrap(loaded[id])) = Some(FALSE)
        /\ PendingOp(Unwrap(loaded[id])).kind = "SetReplica"
        /\ PendingOp(Unwrap(loaded[id])).count
              # Unwrap(loaded[id]).num_replicas

\* C8: for a record reloaded with result None, recovery invokes the
\* executor only after it has queried the runtime state and found the
\* effect missing; when the query finds the effect, the executor is not
\* invoked, and the recorded operation is never applied a second time.
C8_QueryBeforeRedrive ==
    \A id \in VolumeIds :
        /\ rexec[id] > 0 => probe[id] = Some(FALSE)
        /\ probe[id] = Some(TRUE) => rexec[id] = 0
        /\ rpc[id] = "redrive" => probe[id] = Some(FALSE)
        /\ applied[id] <= 1

\* C8 witness: the executor had applied the operation before the restart,
\* recovery found its effect and resolved the record without the executor
C8_Witness ==
    \E id \in VolumeIds :
        /\ loaded[id] # None
        /\ PendingResult(Unwrap(loaded[id])) = None
        /\ probe[id] = Some(TRUE)
        /\ applied[id] = 1
        /\ resolved[id] # None
        /\ rexec[id] = 0

\* the answers under which the client takes the resource to be gone
GoneAnswers == {"NOT_FOUND", "NO_CONTENT", "PRECONDITION_FAILED"}

\* C9: Destroy is idempotent. A DeleteVolume answered OK, NOT_FOUND,
\* NO_CONTENT or PRECONDITION_FAILED succeeds; a Destroy that ran leaves
\* status Deleted and no pending operation; and of two DeleteVolume calls in
\* sequence on one volume that both got such an answer, both succeed and the
\* second leaves the record as the first left it, or removed.
C9_DestroyIdempotent ==
    /\ \A i \in 1..Len(log) :
          (log[i].rpc = "DeleteVolume"
           /\ log[i].response \in {"OK"} \cup GoneAnswers)
          => /\ log[i].status = "Ok"
             /\ log[i].ended = "done"
                  => /\ Unwrap(log[i].after).status = <<"Deleted">>
                     /\ Unwrap(log[i].after).operation = << >>
    /\ \A i \in 1..(Len(log) - 1) :
          (/\ log[i].rpc = "DeleteVolume" /\ log[i + 1].rpc = "DeleteVolume"
           /\ log[i].id = log[i + 1].id
           /\ log[i].ended = "done" /\ log[i + 1].ended \in {"done", "gone"})
          => /\ log[i + 1].after \in {log[i].after, None}
             /\ log[i + 1].response # NoAnswer => log[i + 1].status = "Ok"

\* C9 witness: two DeleteVolume calls on V1 in sequence, the second run
\* on the record the first left Deleted, and both answered
C9_Witness ==
    /\ Len(log) = 2
    /\ log[1].rpc = "DeleteVolume" /\ log[2].rpc = "DeleteVolume"
    /\ log[1].id = "V1" /\ log[2].id = "V1"
    /\ log[1].ended = "done" /\ log[2].ended = "done"
    /\ log[1].response = "NO_CONTENT" /\ log[2].response = "OK"
    /\ log[2].after = log[1].after
    /\ log[1].status = "Ok" /\ log[2].status = "Ok"

\* C10 (as claimed): a ControllerUnpublishVolume that the gateway answers
\* OK, NOT_FOUND, NO_CONTENT or PRECONDITION_FAILED (no record, no target,
\* or the target just removed) returns success.
C10_UnpublishIdempotent ==
    \A i \in 1..Len(log) :
        (log[i].rpc = "ControllerUnpublishVolume"
         /\ log[i].response \in {"OK"} \cup GoneAnswers)
        => log[i].status = "Ok"


\* the record of id in the store carries op as its pending operation
StoredPending(id, op) ==
    /\ store[id] # None
    /\ pending_op(Unwrap(store[id]))
    /\ PendingOp(Unwrap(store[id])) = op

\* C11: persist before execute. The executor is invoked, by a task or by
\* recovery, only when the store holds the record with that operation
\* pending and result None; and from the call of the executor until the
\* task resolves the operation, the store holds the record with that
\* operation recorded.
C11_PersistBeforeExecute ==
    /\ [](\A t \in Tasks :
            task[t].pc \in {"execute", "set_result", "finish"}
            => StoredPending(task[t].id, task[t].op))
    /\ [][\A id \in VolumeIds :
            (applied'[id] > applied[id] \/ rexec'[id] > rexec[id]
             \/ \E t \in Tasks : task[t].pc = "execute" /\ task[t].id = id
                                 /\ task'[t].pc = "set_result")
            => /\ store[id] # None
               /\ pending_op(Unwrap(store[id]))
               /\ PendingResult(Unwrap(store[id])) = None
               /\ mem[id] # None
               /\ PendingOp(Unwrap(store[id])) = PendingOp(Unwrap(mem[id]))]_vars

\* C11 witness: the executor has applied a Publish whose result is not yet
\* recorded, and the store holds the record with the Publish pending
C11_Witness ==
    \E t \in Tasks :
        /\ task[t].pc = "set_result" /\ task[t].ok
        /\ task[t].op.kind = "Publish"
        /\ applied[task[t].id] = 1
        /\ StoredPending(task[t].id, task[t].op)
        /\ PendingResult(Unwrap(store[task[t].id])) = None
        /\ dp[task[t].id].target # None

\* C12: a persist that fails after start_op ends the run with StoreFailure
\* returned to the caller: the executor is not invoked, the store still
\* holds the record from before the operation (none, or one without the
\* operation), and the in-memory record has no pending operation left.
C12_StoreFailureNotStarted ==
    [][\A t \in Tasks :
         (task[t].pc = "persist_start"
          /\ task'[t].pc \notin {"persist_start", "execute"}
          /\ crashes' = crashes)
         => LET id == task[t].id
            IN  /\ task'[t].pc = "done"
                /\ task'[t].ret = "StoreFailure"
                /\ store' = store
                /\ store[id] # None => ~pending_op(Unwrap(store[id]))
                /\ dp' = dp /\ applied' = applied
                /\ mem'[id] = IF store[id] = None THEN None
                              ELSE Some(Deserialize(Unwrap(store[id])))]_vars

\* C12 witness: a SetReplica returned StoreFailure; the runtime state and
\* the stored record are those of before, and the record is free again
C12_Witness ==
    \E t \in Tasks :
        /\ task[t].pc = "done" /\ task[t].ret = "StoreFailure"
        /\ task[t].op.kind = "SetReplica"
        /\ applied[task[t].id] = 0
        /\ store[task[t].id] = Some(Serialize(Created(task[t].id)))
        /\ mem[task[t].id] = Some(Created(task[t].id))

\* the results with which a Reconciler run returns
Exits ==
    {"Ok", "Busy", "NotFound", "AlreadyExists", "InvalidOperation",
     "StoreFailure", "ExecutorFailure"}

\* C13: the guard is released on every exit path. A task that has
\* returned, with whatever result, does not hold the guard of any record;
\* a guard that is held is held by a task still running or by recovery; so
\* once no run is in progress on an id, its record can be acquired.
C13_GuardReleasedOnExit ==
    /\ \A t \in Tasks :
          task[t].pc \in {"idle", "done"}
          => /\ task[t].pc = "done" => task[t].ret \in Exits
             /\ \A id \in VolumeIds :
                   mem[id] # None => Unwrap(mem[id]).sequencer # t
    /\ \A id \in VolumeIds :
          (mem[id] # None /\ Holders(id) = {}) => CanAcquire(Unwrap(mem[id]))

\* C13 witness: a run on V1 returned ExecutorFailure, after which another
\* task acquired the guard of V1
C13_Witness ==
    \E t1, t2 \in Tasks :
        /\ task[t1].pc = "done" /\ task[t1].ret = "ExecutorFailure"
        /\ task[t1].id = "V1"
        /\ task[t2].pc = "persist_start" /\ task[t2].id = "V1"
        /\ Unwrap(mem["V1"]).sequencer = t2

\* C14: the Sequencer is a lock per record. A request returns Busy only if
\* the guard of the record of its own id is held: the guards held on other
\* ids never make it fail.
C14_PerKeyLock ==
    [][\A t \in Tasks :
         (SubmitBy(t) /\ task'[t].pc = "done" /\ task'[t].ret = "Busy")
         => /\ mem[task'[t].id] # None
            /\ Unwrap(mem[task'[t].id]).sequencer # Unlocked]_vars

\* C14 witness: a task on V1 and a task on V2 are both between start_op and
\* commit_op, each holding the guard of its own record
C14_Witness ==
    \E t1, t2 \in Tasks :
        /\ task[t1].id = "V1" /\ task[t2].id = "V2"
        /\ task[t1].pc \in {"execute", "set_result", "finish"}
        /\ task[t2].pc \in {"execute", "set_result", "finish"}
        /\ pending_op(Unwrap(mem["V1"])) /\ pending_op(Unwrap(mem["V2"]))
        /\ Unwrap(mem["V1"]).sequencer = t1
        /\ Unwrap(mem["V2"]).sequencer = t2

\* the record of id has a started operation whose result is not yet set
Started(id) ==
    /\ mem[id] # None
    /\ pending_op(Unwrap(mem[id]))
    /\ PendingResult(Unwrap(mem[id])) = None

\* the record of id has no pending operation (or is gone)
Settled(id) == mem[id] = None \/ ~pending_op(Unwrap(mem[id]))

\* C15: without a crash, every started operation (operation Some, result
\* None) leads to operation None, whether or not the caller of its task
\* gave up while the executor was at work.
C15_StartedLeadsToSettled ==
    \A id \in VolumeIds : Started(id) ~> Settled(id)

\* C15 witness: the caller of a task gave up during the execution, and the
\* task has set the result and resolved the operation all the same
C15_Witness ==
    \E t \in gone :
        /\ task[t].pc = "done" /\ task[t].ret \in {"Ok", "ExecutorFailure"}
        /\ task[t].op.kind = "SetReplica"
        /\ Settled(task[t].id)
        /\ store[task[t].id] = Some(Serialize(Unwrap(mem[task[t].id])))

\* C16: an in-memory record changes only in a step of the task (or of
\* recovery) that holds its guard, or in the step in which a task takes the
\* free guard and calls start_op; a restart apart, which reloads the
\* records.
C16_MutationUnderGuard ==
    [][\A id \in VolumeIds :
         (mem'[id] # mem[id] /\ crashes' = crashes)
         => \/ /\ mem[id] # None
               /\ Unwrap(mem[id]).sequencer \in Holders(id)
               /\ LET h == Unwrap(mem[id]).sequencer
                  IN  IF h = Recovery THEN rpc'[id] # rpc[id]
                      ELSE task'[h] # task[h]
            \/ /\ mem[id] = None \/ Unwrap(mem[id]).sequencer = Unlocked
               /\ mem'[id] # None
               /\ LET h == Unwrap(mem'[id]).sequencer
                  IN  /\ h \in Tasks
                      /\ task[h].pc \in {"idle", "done"}
                      /\ task'[h].pc = "persist_start"
                      /\ task'[h].id = id
                      /\ pending_op(Unwrap(mem'[id]))]_vars

\* C16 witness: the record of V1 has been through start_op and
\* set_op_result of a task that holds its guard and is about to commit
C16_Witness ==
    \E t \in Tasks :
        /\ task[t].pc = "finish" /\ task[t].id = "V1"
        /\ task[t].op.kind = "SetReplica"
        /\ Unwrap(mem["V1"]).sequencer = t
        /\ PendingOp(Unwrap(mem["V1"])) = task[t].op
        /\ PendingResult(Unwrap(mem["V1"])) = Some(TRUE)

\* C17: a record leaves the store only when the store holds it with status
\* Deleted; and a Destroy that succeeded has its record persisted with
\* status Deleted, before the removal, when it is committed.
C17_DeletedBeforeRemoved ==
    /\ [][\A id \in VolumeIds :
            (store[id] # None /\ store'[id] = None)
            => Unwrap(store[id]).status = <<"Deleted">>]_vars
    /\ [][\A t \in Tasks :
            (/\ task[t].pc = "finish" /\ task'[t].pc # "finish"
             /\ crashes' = crashes
             /\ task[t].op.kind = "Destroy" /\ task[t].ok)
            => /\ store'[task[t].id] # None
               /\ Unwrap(store'[task[t].id]).status = <<"Deleted">>
               /\ task'[t].pc = "remove"]_vars

\* C17 witness: a Destroy of V1 returned Ok and the record of V1 is gone
\* from the store
C17_Witness ==
    \E t \in Tasks :
        /\ task[t].pc = "done" /\ task[t].ret = "Ok"
        /\ task[t].op.kind = "Destroy" /\ task[t].id = "V1"
        /\ applied["V1"] = 1
        /\ store["V1"] = None
        /\ ~dp["V1"].exists

\* C19 (as claimed): a record built from a CreateVolume request compares
\* equal to that request whatever its status, its sequencer and its pending
\* operation: every record of the trace that differs from the one built
\* from the request in those three fields at most is equal to the request.
C19_EqIgnoresEphemeralFields ==
    \A i \in 1..Len(trace) :
        (\A f \in ConfigFields \ {"status"} : trace[i][f] = trace[1][f])
        => VolumeSpecEqCreateVolume(
               trace[i], CreateVolume("V1", 1024, trace[1].num_replicas))

\* record r is the one request would build, status, sequencer and pending
\* operation apart
SameAsBuilt(r, request) ==
    /\ r.uuid = request.uuid
    /\ r.size = request.size
    /\ r.num_replicas = request.replicas
    /\ r.policy = request.policy
    /\ r.topology = request.topology
    /\ r.labels = << >>
    /\ r.protocol = "None"
    /\ r.target = << >>
    /\ r.last_nexus_id = << >>

\* C18: a Create for an id whose record exists and is free starts no
\* operation and leaves the record and the store as they are; it returns Ok
\* when the record is equivalent to the request and AlreadyExists when it is
\* not, as it is not when size or replica count differ.
C18_CreateIdempotentOnEquivalence ==
    [][\A t \in Tasks :
         (/\ SubmitBy(t)
          /\ task'[t].op.kind = "Create"
          /\ mem[task'[t].id] # None
          /\ Unwrap(mem[task'[t].id]).sequencer = Unlocked)
         => LET r == Unwrap(mem[task'[t].id])
                request == task'[t].request
            IN  /\ task'[t].pc = "done"
                /\ mem' = mem /\ store' = store /\ dp' = dp
                /\ ~pending_op(Unwrap(mem'[task'[t].id]))
                /\ task'[t].ret = IF SameAsBuilt(r, request) THEN "Ok"
                                  ELSE "AlreadyExists"
                /\ (r.size # request.size
                    \/ r.num_replicas # request.replicas)
                   => task'[t].ret = "AlreadyExists"]_vars

\* C18 witness: on the created V1 a Create with the request it was created
\* with returned Ok, and a Create with another size AlreadyExists
C18_Witness ==
    \E t1, t2 \in Tasks :
        /\ task[t1].pc = "done" /\ task[t1].op.kind = "Create"
        /\ task[t1].request = CreateVolume("V1", 1024, 1)
        /\ task[t1].ret = "Ok"
        /\ task[t2].pc = "done" /\ task[t2].op.kind = "Create"
        /\ task[t2].request = CreateVolume("V1", 2048, 1)
        /\ task[t2].ret = "AlreadyExists"
        /\ mem["V1"] = Some(Created("V1"))
        /\ store["V1"] = Some(Serialize(Created("V1")))

\* C20: the Create lifecycle. While a Create on an id without record is
\* under way, the record has status Creating, the size and replica count of
\* the request, protocol None, no target and no last nexus; when the
\* executor has succeeded and the Create is committed, the record, in
\* memory and in the store, has status Created(Online), the same size and
\* replica count and no pending operation.
C20_CreateLifecycle ==
    /\ [](\A t \in Tasks :
            (task[t].op.kind = "Create"
             /\ task[t].pc \in {"persist_start", "execute", "set_result",
                                "finish"})
            => LET r == Unwrap(mem[task[t].id])
               IN  /\ r.status = <<"Creating">>
                   /\ r.uuid = task[t].id
                   /\ r.size = task[t].request.size
                   /\ r.num_replicas = task[t].request.replicas
                   /\ r.protocol = "None"
                   /\ r.target = << >>
                   /\ r.last_nexus_id = << >>
                   /\ PendingOp(r) = OpCreate)
    /\ [][\A t \in Tasks :
            (/\ task[t].pc = "finish" /\ task'[t].pc # "finish"
             /\ crashes' = crashes
             /\ task[t].op.kind = "Create" /\ task[t].ok)
            => LET r == Unwrap(mem'[task[t].id])
               IN  /\ r.status = <<"Created", "Online">>
                   /\ r.size = task[t].request.size
                   /\ r.num_replicas = task[t].request.replicas
                   /\ r.operation = << >>
                   /\ store'[task[t].id] = Some(Serialize(r))
                   /\ task'[t].ret = "Ok"]_vars

\* C20 witness: Create(V2, 2048, 1) has returned Ok and the record of V2 is
\* Created(Online) with size 2048 and one replica
C20_Witness ==
    \E t \in Tasks :
        /\ task[t].pc = "done" /\ task[t].ret = "Ok"
        /\ task[t].op.kind = "Create"
        /\ task[t].request = CreateVolume("V2", 2048, 1)
        /\ applied["V2"] = 1
        /\ mem["V2"] # None
        /\ Unwrap(mem["V2"]).status = StatusCreatedOnline
        /\ Unwrap(mem["V2"]).size = 2048
        /\ Unwrap(mem["V2"]).num_replicas = 1
        /\ ~pending_op(Unwrap(mem["V2"]))
        /\ dp["V2"].exists

\* C21: a request that the status of its record does not admit (Publish or
\* SetReplica on a record that is Deleted or still Creating) returns
\* InvalidOperation, and a request that returns InvalidOperation has
\* recorded no pending operation, persisted nothing and not invoked the
\* executor.
C21_InvalidOperationBeforeStart ==
    [][\A t \in Tasks :
         SubmitBy(t)
         => LET id == task'[t].id
            IN  /\ (/\ mem[id] # None
                    /\ Unwrap(mem[id]).sequencer = Unlocked
                    /\ Unwrap(mem[id]).status
                          \in {<<"Deleted">>, <<"Creating">>}
                    /\ task'[t].op.kind \in {"Publish", "SetReplica"})
                   => (task'[t].pc = "done"
                       /\ task'[t].ret = "InvalidOperation")
                /\ (task'[t].pc = "done" /\ task'[t].ret = "InvalidOperation")
                   => /\ mem' = mem /\ store' = store
                      /\ dp' = dp /\ applied' = applied
                      /\ ~pending_op(Unwrap(mem'[id]))]_vars

\* C21 witness: a Publish on a volume whose record is Deleted returned
\* InvalidOperation, the record as it was
C21_Witness ==
    \E t \in Tasks :
        /\ task[t].pc = "done" /\ task[t].ret = "InvalidOperation"
        /\ task[t].op.kind = "Publish"
        /\ mem[task[t].id] # None
        /\ Unwrap(mem[task[t].id]).status = StatusDeleted
        /\ Unwrap(mem[task[t].id]).target = None
        /\ ~pending_op(Unwrap(mem[task[t].id]))
        /\ store[task[t].id] = Some(Serialize(Unwrap(mem[task[t].id])))

C23_SetOpResultFrame ==
    \A i \in 1..Len(calls) :
        calls[i].fn = "set_op_result"
        => IF trace[i].operation = << >>
           THEN trace[i + 1] = trace[i]
           ELSE /\ trace[i + 1].operation =
                      <<[operation |-> trace[i].operation[1].operation,
                         result |-> <<calls[i].res>>]>>
                /\ \A f \in ConfigFields \cup {"sequencer"} :
                      trace[i + 1][f] = trace[i][f]

\* C23 witness: set_op_result(false) was called on a record with a pending
\* Publish whose result was Some(true), and set_op_result(true) on a record
\* without pending operation
C23_Witness ==
    \E i, j \in 1..Len(calls) :
        /\ calls[i].fn = "set_op_result" /\ calls[i].res = FALSE
        /\ pending_op(trace[i])
        /\ PendingOp(trace[i]).kind = "Publish"
        /\ PendingResult(trace[i]) = Some(TRUE)
        /\ PendingResult(trace[i + 1]) = Some(FALSE)
        /\ calls[j].fn = "set_op_result" /\ calls[j].res = TRUE
        /\ ~pending_op(trace[j])
        /\ trace[j + 1] = trace[j]

\* C24: store keys do not collide. The key of a VolumeSpec and the key of a
\* VolumeState differ in the kind, also for the same volume id; two keys of
\* one kind are equal exactly when the ids are; and the key of a record is
\* the same after every SpecTransaction call on it.
C24_KeysCollisionFree ==
    /\ \A a, b \in VolumeIds :
          LET specA == VolumeSpecFrom(CreateVolume(a, 1024, 1))
              specB == VolumeSpecFrom(CreateVolume(b, 2048, 2))
              stateA == VolumeState(a, 1024, 1)
              stateB == VolumeState(b, 2048, 2)
          IN  /\ VolumeSpec_key(specA) # VolumeState_key(stateB)
              /\ VolumeSpec_key(specA).key_type
                    # VolumeState_key(stateA).key_type
              /\ (VolumeSpec_key(specA) = VolumeSpec_key(specB)) = (a = b)
              /\ (VolumeState_key(stateA) = VolumeState_key(stateB)) = (a = b)
    /\ \A i \in 1..Len(trace) :
          /\ VolumeSpec_key(trace[i]) = VolumeSpec_key(trace[1])
          /\ VolumeSpec_key(trace[i])
                # VolumeState_key(VolumeState(trace[i].uuid, trace[i].size,
                                              trace[i].num_replicas))

\* C24 witness: the record has been through a committed Destroy and a
\* started Create, and its key is that of the record as built
C24_Witness ==
    \E i, j \in 1..Len(calls) :
        /\ calls[i].fn = "commit_op" /\ pending_op(trace[i])
        /\ PendingOp(trace[i]).kind = "Destroy"
        /\ trace[i + 1].status = StatusDeleted
        /\ i < j /\ calls[j].fn = "start_op" /\ calls[j].op.kind = "Create"
        /\ VolumeSpec_key(trace[j + 1]) = VolumeSpecKey("V1")
        /\ VolumeSpec_key(trace[j + 1]) = VolumeSpec_key(trace[1])

\* a CreateVolume request whose volume the listing found and accepts
Compatible(r) ==
    /\ Unwrap(r.found).spec.status = "Created"
    /\ Unwrap(r.found).spec.num_replicas >= r.replicas
    /\ Unwrap(r.found).spec.size >= r.size

\* the request failed on the listing of the nodes that follows the check
NodesUnlisted(r) ==
    r.status = "FailedPrecondition" /\ r.cause = "ServerCommunicationError"

C26_SingleInstance ==
    /\ Cardinality({t \in Threads : boot[t].result = "Ok"}) <= 1
    /\ \A t \in Threads :
          boot[t].result = "Ok" =>
              REST_CLIENT = Some([base_url |-> BaseUrl(boot[t].endpoint)])

\* the call that recorded the operation pending before call i, if call j is
\* that call
StartedBy(j, i) ==
    /\ j < i
    /\ calls[j].fn = "start_op"
    /\ \A k \in (j + 1)..(i - 1) :
          calls[k].fn \notin {"start_op", "commit_op", "clear_op"}

\* C27: desired_num_replicas is n while a SetReplica(n) is pending and
\* num_replicas in every other state; the commit_op of a SetReplica(n)
\* leaves it at n, the clear_op brings it back to the num_replicas the
\* record had when the operation was started
C27_DesiredNumReplicas ==
    /\ \A i \in 1..Len(trace) :
          desired_num_replicas(trace[i]) =
              IF pending_op(trace[i]) /\ PendingOp(trace[i]).kind = "SetReplica"
              THEN PendingOp(trace[i]).count
              ELSE trace[i].num_replicas
    /\ \A i \in 1..Len(calls), j \in 1..Len(calls) :
          StartedBy(j, i) /\ calls[j].op.kind = "SetReplica" =>
              /\ calls[i].fn = "commit_op" =>
                    /\ desired_num_replicas(trace[i + 1]) = calls[j].op.count
                    /\ desired_num_replicas(trace[i + 1])
                          = desired_num_replicas(trace[i])
              /\ calls[i].fn = "clear_op" =>
                    desired_num_replicas(trace[i + 1]) = trace[j].num_replicas

C27_Witness ==
    \E i, j, k, l \in 1..Len(calls) :
        /\ StartedBy(j, i) /\ calls[j].op.kind = "SetReplica"
        /\ calls[j].op.count # trace[j].num_replicas
        /\ calls[i].fn = "commit_op"
        /\ desired_num_replicas(trace[i + 1]) # trace[j].num_replicas
        /\ StartedBy(l, k) /\ calls[l].op.kind = "SetReplica"
        /\ calls[l].op.count # trace[l].num_replicas
        /\ calls[k].fn = "clear_op"
        /\ desired_num_replicas(trace[k]) # desired_num_replicas(trace[k + 1])

\* the step is a call of fn on a loopback device
LoopbackCalled(fn) ==
    /\ Len(lbcalls') = Len(lbcalls) + 1
    /\ lbcalls'[Len(lbcalls')].fn = fn

\* create makes no bdev, and with the bdev absent it fails and changes nothing
CreateMakesNothing ==
    LoopbackCalled("create") =>
        LET call == lbcalls'[Len(lbcalls')]
        IN  /\ \A n \in BdevNames : bdevs'[n] # None <=> bdevs[n] # None
            /\ bdevs[call.device.name] = None =>
                  /\ call.result = "BdevNotFound"
                  /\ bdevs' = bdevs /\ children' = children
            /\ call.result = "BdevNotFound" => bdevs[call.device.name] = None

\* C28: destroy of a loopback device returns Ok whether or not the bdev or
\* a nexus child of its name exists, the second of two destroys in a row
\* included; create makes no bdev, and with the bdev absent it fails with
\* BdevNotFound and changes nothing
C28_DestroyToleratesAbsence ==
    /\ [](\A i \in 1..Len(lbcalls) :
            lbcalls[i].fn = "destroy" => lbcalls[i].result = "Ok")
    /\ [][CreateMakesNothing]_vars

C28_Witness ==
    /\ \E i \in 1..(Len(lbcalls) - 1) :
          /\ lbcalls[i].fn = "destroy" /\ lbcalls[i + 1].fn = "destroy"
          /\ lbcalls[i].device = lbcalls[i + 1].device
          /\ lbcalls[i].child /\ ~lbcalls[i + 1].child
          /\ ~lbcalls[i + 1].bdev
          /\ lbcalls[i].result = "Ok" /\ lbcalls[i + 1].result = "Ok"
    /\ \E i \in 1..Len(lbcalls) :
          /\ lbcalls[i].fn = "create" /\ ~lbcalls[i].bdev
          /\ lbcalls[i].result = "BdevNotFound"

\* the state a ControllerPublishVolume request got for its volume
GotState(r) == Unwrap(Unwrap(r.found).state)
Published(r) ==
    Unwrap(r.found).state # None /\ GotState(r).protocol # "none"
HasUri(r) ==
    GotState(r).child # None /\ Unwrap(GotState(r).child).device_uri # NoUri

C30_RaceLoserSucceeds ==
    \A i, j \in 1..Len(replies) :
        /\ i # j
        /\ replies[i].rpc = "CreateVolume" /\ replies[j].rpc = "CreateVolume"
        /\ replies[i].id = replies[j].id
        /\ replies[i].replicas = replies[j].replicas
        /\ replies[i].size = replies[j].size
        /\ replies[i].listed /\ replies[i].found = None
        /\ replies[j].listed /\ replies[j].found = None
        /\ replies[i].creates = 1 /\ replies[j].creates = 1
        => ~(/\ replies[j].status = "Internal"
             /\ replies[j].cause = "ResourceAlreadyExists")

\* C31: in every record reached from a record built from a creation
\* request, a target Some(t) comes with last_nexus_id = Some(t.nexus), and a
\* last_nexus_id that is set stays set
C31_LastNexusFollowsTarget ==
    /\ \A i \in 1..Len(trace) :
          trace[i].target # None =>
              trace[i].last_nexus_id = Some(Unwrap(trace[i].target).nexus)
    /\ \A i \in 1..Len(trace), j \in 1..Len(trace) :
          i < j /\ trace[i].last_nexus_id # None =>
              trace[j].last_nexus_id # None

C31_Witness ==
    \E i, j \in 1..Len(trace) :
        /\ i < j
        /\ trace[1].last_nexus_id = None
        /\ trace[i].target # None
        /\ trace[j].target = None
        /\ trace[j].last_nexus_id = Some(Unwrap(trace[i].target).nexus)

\* C32: every commit_op leaves uuid, size, labels, policy and topology as
\* they were; the commit of a Create makes the status Created(Online), the
\* commit of a Destroy makes it Deleted, and every other commit_op leaves
\* the status as it was
C32_CommitFrame ==
    \A i \in 1..Len(calls) :
        calls[i].fn = "commit_op" =>
            /\ \A f \in {"uuid", "size", "labels", "policy", "topology"} :
                  trace[i + 1][f] = trace[i][f]
            /\ trace[i + 1].status =
                  IF pending_op(trace[i]) /\ PendingOp(trace[i]).kind = "Create"
                  THEN StatusCreatedOnline
                  ELSE IF pending_op(trace[i])
                          /\ PendingOp(trace[i]).kind = "Destroy"
                  THEN StatusDeleted
                  ELSE trace[i].status

C32_Witness ==
    \E i, j \in 1..Len(calls) :
        /\ calls[i].fn = "commit_op" /\ pending_op(trace[i])
        /\ PendingOp(trace[i]).kind = "Destroy"
        /\ trace[i].status # StatusDeleted
        /\ trace[i + 1].status = StatusDeleted
        /\ calls[j].fn = "commit_op" /\ pending_op(trace[j])
        /\ PendingOp(trace[j]).kind = "Publish"
        /\ trace[j + 1] # clear_op(trace[j])
        /\ trace[j + 1].status = trace[j].status

\* calls i and i + 1 start and commit an operation of the kind
Committed(i, kind) ==
    /\ i + 1 <= Len(calls)
    /\ calls[i].fn = "start_op" /\ calls[i].op.kind = kind
    /\ calls[i + 1].fn = "commit_op"

\* C33: on a record with target None and protocol None, a committed
\* Publish followed by a committed Unpublish gives back the record with
\* every field as before, except last_nexus_id which is the published
\* nexus; every committed Unpublish leaves protocol None
C33_PublishUnpublish ==
    /\ \A i \in 1..Len(calls) :
          /\ Committed(i, "Publish") /\ Committed(i + 2, "Unpublish")
          /\ trace[i].target = None /\ trace[i].protocol = "None"
          => trace[i + 4] =
                [trace[i] EXCEPT !.last_nexus_id = Some(calls[i].op.nexus),
                                 !.operation = None]
    /\ \A i \in 1..Len(calls) :
          /\ calls[i].fn = "commit_op" /\ pending_op(trace[i])
          /\ PendingOp(trace[i]).kind = "Unpublish"
          => trace[i + 1].protocol = "None"

C33_Witness ==
    \E i \in 1..Len(calls) :
        /\ Committed(i, "Publish") /\ Committed(i + 2, "Unpublish")
        /\ trace[i].target = None /\ trace[i].protocol = "None"
        /\ trace[i].last_nexus_id = None
        /\ trace[i + 2].protocol = "Nvmf"
        /\ trace[i + 2].target # None
        /\ trace[i + 4].protocol = "None"
        /\ trace[i + 4].last_nexus_id = Some("x1")

\* the record with the pending operation's result set to result
WithResult(r, result) ==
    [r EXCEPT !.operation = Some([Unwrap(@) EXCEPT !.result = result])]

\* C34: the record commit_op leaves is the one it would leave had the
\* pending operation's result been None, Some(false) or Some(true)
C34_CommitIgnoresResult ==
    \A i \in 1..Len(calls) :
        calls[i].fn = "commit_op" /\ pending_op(trace[i]) =>
            \A result \in {None, Some(FALSE), Some(TRUE)} :
                commit_op(WithResult(trace[i], result)) = trace[i + 1]

C34_Witness ==
    \E i \in 1..Len(calls) :
        /\ calls[i].fn = "commit_op" /\ pending_op(trace[i])
        /\ PendingResult(trace[i]) = Some(FALSE)
        /\ PendingOp(trace[i]).kind = "Publish"
        /\ trace[i + 1].target # None
        /\ commit_op(WithResult(trace[i], None)) = trace[i + 1]

\* C35: commit_op and clear_op leave a record without pending operation as
\* it is, and the record after either has no pending operation; the record
\* after start_op has a pending operation whose result is None
C35_PendingOpFrame ==
    \A i \in 1..Len(calls) :
        /\ calls[i].fn \in {"commit_op", "clear_op"} =>
              /\ ~pending_op(trace[i + 1])
              /\ ~pending_op(trace[i]) => trace[i + 1] = trace[i]
        /\ calls[i].fn = "start_op" =>
              /\ pending_op(trace[i + 1])
              /\ PendingResult(trace[i + 1]) = None

C35_Witness ==
    \E i, j, k \in 1..Len(calls) :
        /\ calls[i].fn = "commit_op" /\ ~pending_op(trace[i])
        /\ trace[i + 1] = trace[i]
        /\ calls[j].fn = "clear_op" /\ pending_op(trace[j])
        /\ calls[k].fn = "start_op" /\ pending_op(trace[k])
        /\ PendingResult(trace[k + 1]) = None

\* what a pool adds to the capacity: its own, if it is Online or Degraded
Usable(p) ==
    IF p.state # None /\ Unwrap(p.state).status \in {"Online", "Degraded"}
    THEN Unwrap(p.state).capacity
    ELSE 0

\* the sum of what the first n pools of the listing add
RECURSIVE UsableSum(_, _)
UsableSum(pools, n) ==
    IF n = 0 THEN 0 ELSE UsableSum(pools, n - 1) + Usable(pools[n])

\* C36: the capacity GetCapacity returns is the sum of the capacities of
\* the listed pools that are Online or Degraded; a pool in another status
\* or without state adds nothing and leaves the sum of the others as it is
C36_CapacityIsSum ==
    capacity # None /\ Unwrap(capacity).status = "Ok" =>
        Unwrap(capacity).available_capacity
            = UsableSum(Unwrap(capacity).pools, Len(Unwrap(capacity).pools))

\* the requests in the queue of the channel
Queued(ch) == {iovs[ch][i] : i \in 1..Len(iovs[ch])}

\* each request is in the state its type and channel call for
NullRequestsInPlace ==
    \A b \in Ios :
        /\ bios[b].completions <= 1
        /\ bios[b].state = "queued" =>
              /\ io_type_supported(bios[b].io_type)
              /\ bios[b].completions = 0
              /\ \A ch \in Channels : b \in Queued(ch) <=> ch = bios[b].chan
              /\ Cardinality({i \in 1..Len(iovs[bios[b].chan]) :
                                 iovs[bios[b].chan][i] = b}) = 1
        /\ bios[b].state = "ok" =>
              bios[b].io_type \in {"Read", "Write"} /\ bios[b].completions = 1
        /\ bios[b].state = "failed" => bios[b].io_type \notin {"Read", "Write"}
        /\ bios[b].state # "queued" => \A ch \in Channels : b \notin Queued(ch)

\* a request is submitted: a Read or Write is queued on its channel, any
\* other is failed; a request of a queue is completed: the poller has
\* completed the whole queue and returned its length
NullStep ==
    /\ \A b \in Ios :
          bios[b].state = "free" /\ bios'[b].state # "free" =>
              IF bios'[b].io_type \in {"Read", "Write"}
              THEN /\ bios'[b].state = "queued"
                   /\ iovs'[bios'[b].chan] = Append(iovs[bios'[b].chan], b)
              ELSE bios'[b].state = "failed" /\ iovs' = iovs
    /\ \A b \in Ios :
          bios[b].state = "queued" /\ bios'[b] # bios[b] =>
              LET ch == bios[b].chan
              IN  /\ iovs'[ch] = << >>
                  /\ polled'[ch] = Len(iovs[ch])
                  /\ \A a \in Queued(ch) :
                        bios'[a] = [bios[a] EXCEPT !.state = "ok",
                                                   !.completions = 1]
    /\ \A b \in Ios : bios[b].state \in {"ok", "failed"} => bios'[b] = bios[b]

\* C37: a Read or Write submitted on a channel is queued on that channel
\* and on no other, and the run of the channel's poller that follows
\* completes it once, with success, together with the whole queue, and
\* returns the number of requests it completed; a request of another type
\* is failed when it is submitted and is never in a queue
C37_NullNgCompletesOnce ==
    /\ []NullRequestsInPlace
    /\ [][NullStep]_vars
    /\ \A b \in Ios : bios[b].state = "queued" ~> bios[b].state = "ok"

C37_Witness ==
    /\ \E a, b \in Ios :
          /\ a # b /\ bios[a].chan = bios[b].chan
          /\ bios[a].state = "ok" /\ bios[b].state = "ok"
          /\ polled[bios[a].chan] = 2
    /\ \E b \in Ios : bios[b].state = "failed" /\ bios[b].io_type = "Flush"

\* ------------------------------------------------------------ specifications

\* nothing happens in the components a specification leaves out
ExtIdle ==
    VolIdleInit /\ ClientIdle /\ LoopIdle /\ CapIdle /\ NullIdle

\* the Reconciler, its tasks and crash recovery
Init == TxnIdle /\ RecInit /\ CsiIdleInit /\ LiveIdle /\ ExtIdle
Next == NextRec
Spec == Init /\ [][Next]_vars

\* the SpecTransaction methods of one record, called in any order
InitTxn == TxnInit /\ RecInit /\ CsiIdleInit /\ LiveIdle /\ ExtIdle
SpecTxn == InitTxn /\ [][NextTxn]_vars

\* the CSI controller, its REST client and the gateway
InitCsi == TxnIdle /\ RecInit /\ CsiInit /\ LiveIdle /\ ExtIdle
SpecCsi == InitCsi /\ [][NextCsi]_vars

\* the Reconciler's tasks with callers that give up, no restart, every
\* task that can step eventually stepping
SpecLive == Init /\ [][NextLive]_vars /\ Fairness

\* CSI CreateVolume and ControllerPublishVolume requests of two clients
InitVol == TxnIdle /\ RecInit /\ CsiIdleInit /\ LiveIdle /\ VolInit
           /\ ClientIdle /\ LoopIdle /\ CapIdle /\ NullIdle
SpecVol == InitVol /\ [][NextVol]_vars

\* the threads of the process calling initialize and get_client
InitClient == TxnIdle /\ RecInit /\ CsiIdleInit /\ LiveIdle /\ ExtIdle
SpecClient == InitClient /\ [][NextClient]_vars

\* create and destroy calls on loopback devices
InitLoopback == TxnIdle /\ RecInit /\ CsiIdleInit /\ LiveIdle /\ VolIdleInit
                /\ ClientIdle /\ LoopInit /\ CapIdle /\ NullIdle
SpecLoopback == InitLoopback /\ [][NextLoopback]_vars

\* CSI GetCapacity requests
InitCapacity == TxnIdle /\ RecInit /\ CsiIdleInit /\ LiveIdle /\ ExtIdle
SpecCapacity == InitCapacity /\ [][NextCapacity]_vars

\* requests submitted to the NullNg device and the runs of its pollers, each
\* poller run again and again (with_interval(1000))
InitNull == TxnIdle /\ RecInit /\ CsiIdleInit /\ LiveIdle /\ ExtIdle
SpecNull ==
    /\ InitNull /\ [][NextNull]_vars
    /\ \A ch \in Channels : WF_vars(Poll(ch) /\ UNCHANGED notNull)

====
